---- MODULE Spec2Model ----
(***************************************************************************)
(* Stability verifier for decision trees and forests under the            *)
(* hyperrectangle abstract domain (silva).                                 *)
(*                                                                         *)
(* Numbers.  Coordinates, thresholds and interval bounds live on an        *)
(* integer grid whose unit is EPSILON / 2, so that a point strictly        *)
(* inside the gap (k, k + EPSILON) exists.  Concrete points (samples,      *)
(* midpoints) are stored DOUBLED: the point p stands for the real p / 2,   *)
(* which makes interval_midpoint exact (2 * (l + u) * 0.5 = l + u).        *)
(* Priorities are exact rationals with the IEEE special values the code    *)
(* can produce (division by a zero radius).                                *)
(***************************************************************************)
EXTENDS Integers, Sequences, FiniteSets, TLC

(***************************************************************************)
(* Bounds of the model and program constants.                              *)
(***************************************************************************)
MaxVal == 3
MaxTrees == 2
EPSILON == 2
One == 4

Features == 0 .. 1
space_size == Cardinality(Features)
Labels == <<"A", "B">>
n_labels == Len(Labels)
Vals == 0 .. MaxVal
Thresholds == {1, 2}

NULL == [null |-> TRUE]

min(a, b) == IF a < b THEN a ELSE b
max(a, b) == IF a > b THEN a ELSE b

(***************************************************************************)
(* Intervals and hyperrectangles.                                          *)
(***************************************************************************)
Interval(l, u) == [l |-> l, u |-> u]

interval_is_bottom(x) == x.l > x.u

\* variant: the comparison is not strict
interval_is_le(x, y) == x.u <= y.l

interval_is_lt(x, y) == x.u < y.l

\* doubled midpoint: 2 * ((l + u) * 0.5)
interval_midpoint(x) == x.l + x.u

\* interval arithmetic (interval.h); on integers the directed roundings
\* are exact
interval_add(x, y) == Interval(x.l + y.l, x.u + y.u)

interval_sub(x, y) == Interval(x.l - y.l, x.u - y.u)

\* variant: the bounds are the products of the bounds, whatever the signs
interval_mul_of_bounds(x, y) == Interval(x.l * y.l, x.u * y.u)

interval_mul(x, y) ==
    IF (x.l = 0 /\ x.u = 0) \/ (y.l = 0 /\ y.u = 0) THEN Interval(0, 0)
    ELSE IF x.l >= 0
    THEN IF y.l >= 0 THEN Interval(x.l * y.l, x.u * y.u)
         ELSE IF y.u <= 0 THEN Interval(x.u * y.l, x.l * y.u)
         ELSE Interval(x.u * y.l, x.u * y.u)
    ELSE IF x.u <= 0
    THEN IF y.l >= 0 THEN Interval(x.l * y.u, x.u * y.l)
         ELSE IF y.u <= 0 THEN Interval(x.u * y.u, x.l * y.l)
         ELSE Interval(x.l * y.u, x.l * y.l)
    ELSE IF y.l >= 0 THEN Interval(x.l * y.u, x.u * y.u)
         ELSE IF y.u <= 0 THEN Interval(x.u * y.l, x.l * y.l)
         ELSE Interval(min(x.l * y.u, x.u * y.l), max(x.l * y.l, x.u * y.u))

interval_fma(alpha, x, y) ==
    IF alpha >= 0 THEN Interval(alpha * x.l + y.l, alpha * x.u + y.u)
    ELSE Interval(alpha * x.u + y.l, alpha * x.l + y.u)

interval_glb(x, y) ==
    Interval(IF x.l > y.l THEN x.l ELSE y.l, IF x.u < y.u THEN x.u ELSE y.u)

hyperrectangle_is_bottom(x) == \E i \in DOMAIN x : interval_is_bottom(x[i])

hyperrectangle_midpoint(x) == [i \in DOMAIN x |-> interval_midpoint(x[i])]

\* p is a doubled point
InInterval(p, x) == 2 * x.l <= p /\ p <= 2 * x.u
InRegion(p, x) == \A i \in DOMAIN x : InInterval(p[i], x[i])
SubRegion(x, y) == \A i \in DOMAIN x : y[i].l <= x[i].l /\ x[i].u <= y[i].u

\* doubled points of a hyperrectangle, at a resolution of a quarter of EPSILON
PointsOf(x) == {p \in [DOMAIN x -> 0 .. 2 * max(MaxVal, One)] : InRegion(p, x)}

(***************************************************************************)
(* Sets of labels: an array of distinct elements (set.c).                  *)
(***************************************************************************)
RECURSIVE set_has_element(_, _)
set_has_element(S, x) ==
    IF S = <<>> THEN FALSE
    ELSE IF x = Head(S) THEN TRUE
    ELSE set_has_element(Tail(S), x)

set_add_element(S, x) == IF set_has_element(S, x) THEN S ELSE Append(S, x)

set_is_subset(A, B) == \A i \in 1 .. Len(A) : set_has_element(B, A[i])

\* n_common counts the elements of A seen before one is missing from B
set_is_proper_subset(A, B) ==
    IF \E i \in 1 .. Len(A) : ~ set_has_element(B, A[i]) THEN FALSE
    ELSE LET n_common == Len(A)
         IN n_common # Len(A)

set_is_equal(A, B) ==
    IF Len(A) = Len(B) THEN set_is_subset(A, B) /\ set_is_subset(B, A) ELSE FALSE

set_is_disjoint(A, B) ==
    ~ \E i \in 1 .. Len(A) : \E j \in 1 .. Len(B) : A[i] = B[j]

set_get_cardinality(S) == Len(S)

set_intersection(A, B) == SelectSeq(A, LAMBDA x : set_has_element(B, x))

Elems(S) == {S[i] : i \in 1 .. Len(S)}

(***************************************************************************)
(* Decision trees: an arena of nodes, node 1 is the root.                  *)
(***************************************************************************)
LeafNode(s, p) ==
    [type |-> "leaf", i |-> 0, k |-> 0, left |-> 0, right |-> 0,
     parent |-> p, scores |-> s]
SplitNode(i, k, l, r, p) ==
    [type |-> "split", i |-> i, k |-> k, left |-> l, right |-> r,
     parent |-> p, scores |-> <<>>]

\* decision_tree_leaf_create: n_samples and max_score of a counting leaf
RECURSIVE SumSeq(_)
SumSeq(s) == IF s = <<>> THEN 0 ELSE Head(s) + SumSeq(Tail(s))
RECURSIVE MaxSeq(_)
MaxSeq(s) == IF Len(s) = 1 THEN s[1] ELSE max(Head(s), MaxSeq(Tail(s)))
leaf_n_samples(N) == SumSeq(N.scores)
leaf_max_score(N) == MaxSeq(N.scores)

binary_tree_node_is_leaf(T, n) == T[n].left = 0 /\ T[n].right = 0
binary_tree_node_is_root(T, n) == T[n].parent = 0

RECURSIVE binary_tree_node_get_depth(_, _)
binary_tree_node_get_depth(T, n) ==
    IF T[n].parent = 0 THEN 0 ELSE 1 + binary_tree_node_get_depth(T, T[n].parent)

\* the leaf reached by the doubled point p: x[i] <= k goes left
RECURSIVE WalkFrom(_, _, _)
WalkFrom(T, n, p) ==
    IF T[n].type = "leaf" THEN n
    ELSE IF p[T[n].i] <= 2 * T[n].k THEN WalkFrom(T, T[n].left, p)
    ELSE WalkFrom(T, T[n].right, p)

\* argmax as computed by the classify functions: max, then all equal to max
ArgmaxLabels(scores) ==
    LET m == MaxSeq(scores)
        add[i \in 0 .. n_labels] ==
            IF i = 0 THEN <<>>
            ELSE IF scores[i] = m THEN set_add_element(add[i - 1], Labels[i])
            ELSE add[i - 1]
    IN add[n_labels]

\* scores[i] / n_samples at the leaf reached by p.  All the values compared
\* come from one leaf, so they share the denominator n_samples and the
\* numerators are compared.
decision_tree_compute_decision_function(T, p) == T[WalkFrom(T, 1, p)].scores

decision_tree_classify(T, p) ==
    ArgmaxLabels(decision_tree_compute_decision_function(T, p))

(***************************************************************************)
(* Forest evaluation under the MAX voting scheme (forest.c).               *)
(***************************************************************************)
\* one vote of every tree to each label tying for the maximum at its leaf
decision_function_max(F, p) ==
    LET votes[t \in 0 .. Len(F)] ==
            IF t = 0 THEN [j \in 1 .. n_labels |-> 0]
            ELSE LET tree_scores == decision_tree_compute_decision_function(F[t], p)
                     m == MaxSeq(tree_scores)
                 IN [j \in 1 .. n_labels |->
                        votes[t - 1][j] + (IF tree_scores[j] = m THEN 1 ELSE 0)]
    IN votes[Len(F)]

forest_compute_decision_function(F, p) == decision_function_max(F, p)

forest_classify(F, p) == ArgmaxLabels(forest_compute_decision_function(F, p))

(***************************************************************************)
(* Priorities: IEEE doubles restricted to exact rationals n / d (d > 0)    *)
(* and the special values a division by zero produces.                     *)
(***************************************************************************)
Fin(n, d) == [t |-> "fin", n |-> n, d |-> d]
PInf == [t |-> "pinf", n |-> 0, d |-> 1]
NInf == [t |-> "ninf", n |-> 0, d |-> 1]
NaN == [t |-> "nan", n |-> 0, d |-> 1]

\* a / b for integers a, b
Div(a, b) ==
    IF b > 0 THEN Fin(a, b)
    ELSE IF b < 0 THEN Fin(-a, -b)
    ELSE IF a > 0 THEN PInf
    ELSE IF a < 0 THEN NInf
    ELSE NaN

\* the integer a plus the double q
AddInt(a, q) == IF q.t = "fin" THEN Fin(a * q.d + q.n, q.d) ELSE q

\* x > y on doubles: false as soon as one side is NaN
KeyGT(x, y) ==
    IF x.t = "nan" \/ y.t = "nan" THEN FALSE
    ELSE IF x.t = "pinf" THEN y.t # "pinf"
    ELSE IF x.t = "ninf" THEN FALSE
    ELSE IF y.t = "pinf" THEN FALSE
    ELSE IF y.t = "ninf" THEN TRUE
    ELSE IF x.d = y.d THEN x.n > y.n
    ELSE x.n * y.d > y.n * x.d

\* x >= y on doubles
KeyGE(x, y) ==
    IF x.t = "nan" \/ y.t = "nan" THEN FALSE
    ELSE IF x.t = "pinf" THEN TRUE
    ELSE IF y.t = "ninf" THEN TRUE
    ELSE IF x.t = "ninf" THEN FALSE
    ELSE IF y.t = "pinf" THEN FALSE
    ELSE IF x.d = y.d THEN x.n >= y.n
    ELSE x.n * y.d >= y.n * x.d

(***************************************************************************)
(* Binary heap of type HEAP_MAX (binary_heap.c) and the priority queue     *)
(* wrapping it.  nodes is the C array, slot j of C being nodes[j + 1];     *)
(* slots at and after size keep their last content, as in the code.        *)
(***************************************************************************)
EmptyHeap == [nodes |-> <<>>, size |-> 0]

index_of_parent(i) == (i - 1) \div 2
index_of_left_child(i) == 2 * i + 1
index_of_right_child(i) == 2 * i + 2

swap_nodes(nodes, i, j) ==
    [nodes EXCEPT ![i + 1] = nodes[j + 1], ![j + 1] = nodes[i + 1]]

heap_property_local(nodes, node_idx) ==
    IF node_idx = 0 THEN TRUE
    ELSE KeyGE(nodes[index_of_parent(node_idx) + 1].key, nodes[node_idx + 1].key)

\* variant: the child chosen is the one HEAP_MIN would choose
chose_child_min(nodes, left, right) ==
    IF KeyGT(nodes[right + 1].key, nodes[left + 1].key) THEN left ELSE right

chose_child(nodes, left, right) ==
    IF KeyGT(nodes[left + 1].key, nodes[right + 1].key) THEN left ELSE right

RECURSIVE sift_up(_, _)
sift_up(nodes, node_idx) ==
    IF heap_property_local(nodes, node_idx) THEN nodes
    ELSE sift_up(swap_nodes(nodes, node_idx, index_of_parent(node_idx)),
                 index_of_parent(node_idx))

RECURSIVE sift_down(_, _, _)
sift_down(nodes, size, node_idx) ==
    LET left_idx == index_of_left_child(node_idx)
        right_idx == index_of_right_child(node_idx)
        is_restored ==
            /\ (left_idx < size => heap_property_local(nodes, left_idx))
            /\ (right_idx < size => heap_property_local(nodes, right_idx))
    IN IF is_restored THEN nodes
       ELSE LET swap_idx == chose_child(nodes, left_idx, right_idx)
            IN sift_down(swap_nodes(nodes, node_idx, swap_idx), size, swap_idx)

binary_heap_push(H, x, key) ==
    LET node == [data |-> x, key |-> key]
        written == IF H.size < Len(H.nodes)
                   THEN [H.nodes EXCEPT ![H.size + 1] = node]
                   ELSE Append(H.nodes, node)
    IN [nodes |-> sift_up(written, H.size), size |-> H.size + 1]

\* the heap after the pop; the element returned is binary_heap_peek
binary_heap_pop(H) ==
    LET moved == [H.nodes EXCEPT ![1] = H.nodes[H.size]]
    IN [nodes |-> sift_down(moved, H.size - 1, 0), size |-> H.size - 1]

binary_heap_peek(H) == H.nodes[1].data
binary_heap_is_empty(H) == H.size = 0

priority_queue_push(P, x, priority) == binary_heap_push(P, x, priority)
priority_queue_pop(P) == binary_heap_pop(P)
priority_queue_peek(P) == binary_heap_peek(P)
priority_queue_is_empty(P) == binary_heap_is_empty(P)

\* the live elements of a queue, in array order
QueueData(P) == [j \in 1 .. P.size |-> P.nodes[j].data]

(***************************************************************************)
(* Reachable leaves of a tree under a hyperrectangle                       *)
(* (forest_hyperrectangle.c).  S is the explicit stack, L the output.      *)
(***************************************************************************)
\* variant: a lower bound equal to the threshold does not go left
RECURSIVE reachable_leaves_strict(_, _, _, _)
reachable_leaves_strict(T, x, S, L) ==
    IF S = <<>> THEN L
    ELSE LET n == S[Len(S)]
             popped == SubSeq(S, 1, Len(S) - 1)
         IN IF T[n].type = "leaf"
            THEN reachable_leaves_strict(T, x, popped, Append(L, n))
            ELSE LET i == T[n].i
                     k == T[n].k
                     S1 == IF x[i].l < k THEN Append(popped, T[n].left) ELSE popped
                     S2 == IF x[i].u > k THEN Append(S1, T[n].right) ELSE S1
                 IN reachable_leaves_strict(T, x, S2, L)

RECURSIVE reachable_leaves_loop(_, _, _, _)
reachable_leaves_loop(T, x, S, L) ==
    IF S = <<>> THEN L
    ELSE LET n == S[Len(S)]
             popped == SubSeq(S, 1, Len(S) - 1)
         IN IF T[n].type = "leaf"
            THEN reachable_leaves_loop(T, x, popped, Append(L, n))
            ELSE LET i == T[n].i
                     k == T[n].k
                     S1 == IF x[i].l <= k THEN Append(popped, T[n].left) ELSE popped
                     S2 == IF x[i].u > k THEN Append(S1, T[n].right) ELSE S1
                 IN reachable_leaves_loop(T, x, S2, L)

reachable_leaves(T, x) == reachable_leaves_loop(T, x, <<1>>, <<>>)

\* variant: of the labels that no other label dominates only the first is kept
scores_to_labels_first(scores, labels) ==
    LET is_maximal(i) ==
            ~ \E j \in 1 .. Len(labels) : i # j /\ interval_is_lt(scores[i], scores[j])
        add[i \in 0 .. Len(labels)] ==
            IF i = 0 THEN <<>>
            ELSE IF add[i - 1] # <<>> THEN add[i - 1]
            ELSE IF is_maximal(i) THEN set_add_element(add[i - 1], labels[i])
            ELSE add[i - 1]
    IN add[Len(labels)]

\* Converts a scores overapproximation to a set of labels
scores_to_labels(scores, labels) ==
    LET is_maximal(i) ==
            ~ \E j \in 1 .. Len(labels) : i # j /\ interval_is_lt(scores[i], scores[j])
        add[i \in 0 .. Len(labels)] ==
            IF i = 0 THEN <<>>
            ELSE IF set_has_element(add[i - 1], labels[i]) THEN add[i - 1]
            ELSE IF is_maximal(i) THEN set_add_element(add[i - 1], labels[i])
            ELSE add[i - 1]
    IN add[Len(labels)]

(***************************************************************************)
(* Hyperrectangle decorators.  D is the arena of decorators created so     *)
(* far; a decorator is named by its index, 0 standing for no decorator.    *)
(* A leaf is named by the tree it belongs to and its node.                 *)
(***************************************************************************)
Decorator(h, leaf, parent) ==
    [x |-> h, leaf |-> leaf, parent |-> parent, children |-> <<>>,
     labels |-> <<>>, scores |-> NULL]

LeafRef(t, n) == [t |-> t, n |-> n]

\* variant: the depth is 1 for every decorator that has a parent
decorator_get_depth_flat(D, d) == IF D[d].parent = 0 THEN 0 ELSE 1

RECURSIVE decorator_get_depth(_, _)
decorator_get_depth(D, d) ==
    IF D[d].parent = 0 THEN 0 ELSE 1 + decorator_get_depth(D, D[d].parent)

\* votes of the leaves fixed by d and its ancestors
RECURSIVE decorator_score_concrete_max(_, _, _)
decorator_score_concrete_max(F, D, d) ==
    IF D[d].leaf = NULL
    THEN [i \in 1 .. n_labels |-> Interval(0, 0)]
    ELSE LET node == F[D[d].leaf.t][D[d].leaf.n]
             m == leaf_max_score(node)
             rest == decorator_score_concrete_max(F, D, D[d].parent)
         IN [i \in 1 .. n_labels |->
                IF node.scores[i] = m
                THEN Interval(rest[i].l + 1, rest[i].u + 1)
                ELSE rest[i]]

\* variant: the upper bound grows only when every reachable leaf votes for i
decorator_score_sound_max_exact(scores, x, T) ==
    LET L == reachable_leaves(T, x)
        n_leaves == Len(L)
        local_scores == [i \in 1 .. n_labels |->
            Cardinality({j \in 1 .. n_leaves :
                            T[L[j]].scores[i] = leaf_max_score(T[L[j]])})]
    IN [i \in 1 .. n_labels |->
           Interval(scores[i].l + (IF local_scores[i] = n_leaves THEN 1 ELSE 0),
                    scores[i].u + (IF local_scores[i] = n_leaves THEN 1 ELSE 0))]

\* adds to scores the overapproximated vote of the tree T under region x
decorator_score_sound_max(scores, x, T) ==
    LET L == reachable_leaves(T, x)
        n_leaves == Len(L)
        local_scores == [i \in 1 .. n_labels |->
            Cardinality({j \in 1 .. n_leaves :
                            T[L[j]].scores[i] = leaf_max_score(T[L[j]])})]
    IN [i \in 1 .. n_labels |->
           Interval(scores[i].l + (IF local_scores[i] = n_leaves THEN 1 ELSE 0),
                    scores[i].u + (IF local_scores[i] > 0 THEN 1 ELSE 0))]

\* trees[depth .. n_trees - 1] are overapproximated one after the other
decorator_score_sound(F, D, d, scores) ==
    LET depth == decorator_get_depth(D, d)
        acc[t \in depth .. Len(F)] ==
            IF t = depth THEN scores
            ELSE decorator_score_sound_max(acc[t - 1], D[d].x, F[t])
    IN acc[Len(F)]

decorator_score_overapproximate(F, D, d) ==
    decorator_score_sound(F, D, d, decorator_score_concrete_max(F, D, d))

decorator_compute_labels(F, D, d) ==
    scores_to_labels(decorator_score_overapproximate(F, D, d), Labels)

(***************************************************************************)
(* Tier adjustment.                                                        *)
(***************************************************************************)
RECURSIVE adjust_tier_off_loop(_, _, _, _, _, _, _)
adjust_tier_off_loop(x, tier, group, j, n_members, n_off, candidate) ==
    IF j = Cardinality(DOMAIN tier) THEN x
    ELSE LET member == tier[j] = group
             is_off == IF x[j].l = 0 /\ x[j].u = 0 THEN 1 ELSE 0
             m1 == IF member THEN n_members + 1 ELSE n_members
             o1 == IF member THEN n_off + is_off ELSE n_off
             c1 == IF member THEN j * (1 - is_off) ELSE candidate
             x1 == IF m1 = o1 + 1
                   THEN [x EXCEPT ![c1] = Interval(One, One)]
                   ELSE x
         IN adjust_tier_off_loop(x1, tier, group, j + 1, m1, o1, c1)

\* variant: turning a feature on turns every other feature off
adjust_tier_whole_space(x, tier, i, is_active) ==
    LET group == tier[i]
    IN IF group = 0 THEN x
       ELSE IF is_active
       THEN [j \in DOMAIN x |->
                IF j = i THEN Interval(One, One) ELSE Interval(0, 0)]
       ELSE adjust_tier_off_loop([x EXCEPT ![i] = Interval(0, 0)],
                                 tier, group, 0, 0, 0, 0)

adjust_tier(x, tier, i, is_active) ==
    LET group == tier[i]
    IN IF group = 0 THEN x
       ELSE IF is_active
       THEN [j \in DOMAIN x |->
                IF j = i THEN Interval(One, One)
                ELSE IF tier[j] = group THEN Interval(0, 0)
                ELSE x[j]]
       ELSE adjust_tier_off_loop([x EXCEPT ![i] = Interval(0, 0)],
                                 tier, group, 0, 0, 0, 0)

(***************************************************************************)
(* Priorities of the two searches.                                         *)
(***************************************************************************)
\* 2 * interval_radius(x), on the grid
Diameter(x) == x.u - x.l

RECURSIVE DiameterProduct(_, _)
DiameterProduct(x, i) ==
    IF i = space_size THEN 1 ELSE Diameter(x[i]) * DiameterProduct(x, i + 1)

RECURSIVE Power(_, _)
Power(b, e) == IF e = 0 THEN 1 ELSE b * Power(b, e - 1)

\* hyperrectangle_volume(x) = DiameterProduct / VolumeUnit in real units
VolumeUnit == Power(2 * One, space_size)

\* depth + num / interval_radius(x), num and x on the grid
TraversalPriority(depth, num, x) == AddInt(depth, Div(2 * num, Diameter(x)))

\* - 1e6 * volume + 1.0 * depth + 1.0 * (n_labels_l - intersection_size) / n_labels
compute_priority(D, h, abstract_labels, labels_a) ==
    LET n_labels_l == set_get_cardinality(abstract_labels)
        depth == decorator_get_depth(D, h)
        intersection_size ==
            set_get_cardinality(set_intersection(abstract_labels, labels_a))
    IN Fin(n_labels * (depth * VolumeUnit - 1000000 * DiameterProduct(D[h].x, 0))
             + (n_labels_l - intersection_size) * VolumeUnit,
           n_labels * VolumeUnit)

(***************************************************************************)
(* State.                                                                  *)
(***************************************************************************)
VARIABLES
    F,                \* the forest: a sequence of trees (one tree for the tree verifier)
    tier,             \* tier vector: feature -> group, 0 meaning not tiered
    H,                \* the region handed to the verifier
    status,           \* StabilityStatus
    internal_status,  \* analysis_data.internal_status
    expired,          \* time(NULL) - start_time > timeout
    decs,             \* arena of the decorators created by the analysis
    Q,                \* frontier of best_first_search
    cur,              \* decorator being refined
    Qx, Qt,           \* the two queues of refine
    refined,          \* list of refined decorators (adjacent_nodes)
    local_labels,     \* analysis_data.local_labels
    S,                \* stack of depth_first_search
    goal,             \* goal node of depth_first_search
    hist,             \* history: what happened during the analysis
    dump,             \* what the driver wrote to the counterexamples file
    call,             \* a function application: its arguments and its result
    pc                \* position in the verifier

vars == <<F, tier, H, status, internal_status, expired, decs, Q, cur, Qx, Qt,
          refined, local_labels, S, goal, hist, dump, call, pc>>

\* content of memory that was allocated and not written yet
Uninit == "uninit"

(***************************************************************************)
(* Inputs.                                                                 *)
(***************************************************************************)
MaxScore == 1

LeafScores == {s \in [1 .. n_labels -> 0 .. MaxScore] : SumSeq(s) >= 1}

LeafTree(s) == <<LeafNode(s, 0)>>

Stump(i, k, s1, s2) ==
    <<SplitNode(i, k, 2, 3, 0), LeafNode(s1, 1), LeafNode(s2, 1)>>

\* root -> left split -> two leaves; root -> right leaf
ChainLeft(i1, k1, i2, k2, s1, s2, s3) ==
    <<SplitNode(i1, k1, 2, 3, 0), SplitNode(i2, k2, 4, 5, 1), LeafNode(s3, 1),
      LeafNode(s1, 2), LeafNode(s2, 2)>>

\* root -> left leaf; root -> right split -> two leaves
ChainRight(i1, k1, i2, k2, s1, s2, s3) ==
    <<SplitNode(i1, k1, 2, 3, 0), LeafNode(s1, 1), SplitNode(i2, k2, 4, 5, 1),
      LeafNode(s2, 3), LeafNode(s3, 3)>>

Pure == {s \in LeafScores : SumSeq(s) = 1}

LeafTrees == {LeafTree(s) : s \in LeafScores}

PurePairs == {p \in Pure \X Pure : p[1] # p[2]}
ThresholdPairs == {k \in Thresholds \X Thresholds : k[1] # k[2]}

Stumps == {Stump(i, 1, p[1], p[2]) : i \in Features, p \in PurePairs}

DeepTrees ==
    {ChainLeft(0, k[1], 0, k[2], p[1], p[2], p[1]) : k \in ThresholdPairs, p \in PurePairs}
    \cup
    {ChainRight(0, k[1], 0, k[2], p[1], p[2], p[1]) : k \in ThresholdPairs, p \in PurePairs}

\* the trees of the forests: a leaf, and stumps on either feature
Trees ==
    {LeafTree(<<0, 1>>), Stump(1, 1, <<1, 0>>, <<0, 1>>)}
    \cup {Stump(0, 1, p[1], p[2]) : p \in PurePairs}

RECURSIVE SeqsOf(_, _)
SeqsOf(X, n) ==
    IF n = 0 THEN {<<>>}
    ELSE {Append(s, x) : s \in SeqsOf(X, n - 1), x \in X}

\* two stumps on feature 0 whose thresholds are less than EPSILON apart
CloseForests ==
    {<<Stump(0, 1, p[1], p[2]), Stump(0, 2, q[1], q[2])>> : p \in PurePairs, q \in PurePairs}

Forests ==
    {<<t>> : t \in DeepTrees} \cup CloseForests
    \cup UNION {SeqsOf(Trees, n) : n \in 1 .. MaxTrees}

Intervals == {x \in [l : Vals, u : Vals] : x.l <= x.u}
Regions == [Features -> Intervals]
ForestRegions == {x \in Regions : x[1].l = 0}
Tiers == [Features -> 0 .. 1]

LowerCorner(x) == [i \in DOMAIN x |-> 2 * x[i].l]

(***************************************************************************)
(* Forest verifier: forest_hyperrectangle_is_stable, best_first_search,    *)
(* is_complete and refine.                                                 *)
(***************************************************************************)
\* hyper_new .. buf_del count the hyperrectangles, the decorators and the
\* buffers of analysis_data that were allocated and released
NoHist == [cex |-> FALSE, timeout |-> FALSE, exhausted |-> FALSE, b_writes |-> 0,
           refines |-> 0, hyper_new |-> 0, hyper_del |-> 0, dec_new |-> 0,
           dec_del |-> 0, buf_new |-> 0, buf_del |-> 0]

\* S, L, local_scores and local_labels of analysis_data
n_buffers == 4

\* what decorator_delete releases: the decorators found from the stack S
\* through the lists of children, and the hyperrectangles they still hold
RECURSIVE decorator_delete_loop(_, _, _)
decorator_delete_loop(D, stack, released) ==
    IF stack = <<>> THEN released
    ELSE LET x == stack[Len(stack)]
             popped == SubSeq(stack, 1, Len(stack) - 1)
             children == D[x].children
             pushed == popped \o [j \in 1 .. Len(children) |->
                                     children[Len(children) + 1 - j]]
         IN decorator_delete_loop(D, pushed,
                [decorators |-> released.decorators + 1,
                 hyperrectangles |-> released.hyperrectangles
                                         + (IF D[x].x # NULL THEN 1 ELSE 0)])

decorator_delete(D, start) ==
    decorator_delete_loop(D, <<start>>, [decorators |-> 0, hyperrectangles |-> 0])

\* the status the driver hands over: with the sample and its labels (silva.c)
\* or without a sample
StatusOf(has_sample, sample, labels) ==
    [result |-> Uninit, has_sample |-> has_sample,
     sample_a |-> IF has_sample THEN sample ELSE Uninit,
     sample_b |-> Uninit, region |-> Uninit,
     labels_a |-> IF has_sample THEN labels ELSE Uninit]

Idle ==
    /\ internal_status = Uninit
    /\ expired = FALSE
    /\ decs = <<>>
    /\ Q = EmptyHeap
    /\ cur = 0
    /\ Qx = EmptyHeap
    /\ Qt = EmptyHeap
    /\ refined = <<>>
    /\ local_labels = <<>>
    /\ S = <<>>
    /\ goal = 0
    /\ hist = NoHist
    /\ dump = NULL
    /\ call = NULL
    /\ pc = "init"

Init ==
    /\ F \in Forests
    /\ tier \in Tiers
    /\ H \in ForestRegions
    /\ \E has_sample \in BOOLEAN :
          status = StatusOf(has_sample, LowerCorner(H), forest_classify(F, LowerCorner(H)))
    /\ Idle

\* variant: the goal predicate looks at the clock only
is_complete_clock_only(ist, timed_out) ==
    IF ist = "DONT_KNOW" /\ timed_out THEN [stop |-> TRUE, internal_status |-> "ABORTED"]
    ELSE [stop |-> FALSE, internal_status |-> ist]

\* variant: the clock is read before the internal status
is_complete_clock_first(ist, timed_out) ==
    IF timed_out THEN [stop |-> TRUE, internal_status |-> "ABORTED"]
    ELSE IF ist # "DONT_KNOW" THEN [stop |-> TRUE, internal_status |-> ist]
    ELSE [stop |-> FALSE, internal_status |-> ist]

\* goal predicate of the best-first search: the new internal status and
\* whether the search must stop
is_complete(ist, timed_out) ==
    IF ist # "DONT_KNOW" THEN [stop |-> TRUE, internal_status |-> ist]
    ELSE IF timed_out THEN [stop |-> TRUE, internal_status |-> "ABORTED"]
    ELSE [stop |-> FALSE, internal_status |-> ist]

\* variant: the cases ABORTED and DONT_KNOW are exchanged
CheckResult_exchanged(ist) ==
    IF ist = "DONT_KNOW" THEN "STABILITY_DONT_KNOW"
    ELSE IF ist = "UNSTABLE" THEN "STABILITY_FALSE"
    ELSE "STABILITY_TRUE"

\* the final switch on the internal status
CheckResult(ist) ==
    CASE ist = "DONT_KNOW" -> "STABILITY_TRUE"
      [] ist = "UNSTABLE" -> "STABILITY_FALSE"
      [] ist = "ABORTED" -> "STABILITY_DONT_KNOW"

\* variant: the right side of a crossed split starts at the threshold
refine_split_closed(x_prime, T, N, t) ==
    LET i == T[N].i
        k == T[N].k
        depth == binary_tree_node_get_depth(T, N)
    IN IF x_prime[i].l <= k /\ x_prime[i].u > k
       THEN LET x_left == adjust_tier([x_prime EXCEPT ![i].u = min(@, k)], t, i, FALSE)
                x_right == adjust_tier(
                    [x_prime EXCEPT ![i].l = max(x_left[i].u, k)], t, i, TRUE)
            IN <<[x |-> x_left, n |-> T[N].left,
                  priority |-> TraversalPriority(depth, k - x_left[i].l, x_left[i])],
                 [x |-> x_right, n |-> T[N].right,
                  priority |-> TraversalPriority(depth, x_left[i].u - k, x_left[i])]>>
       ELSE IF x_prime[i].u <= k
       THEN LET y == adjust_tier(x_prime, t, i, FALSE)
            IN <<[x |-> y, n |-> T[N].left,
                  priority |-> TraversalPriority(depth, k - y[i].l, y[i])]>>
       ELSE IF x_prime[i].l > k
       THEN LET y == adjust_tier(x_prime, t, i, TRUE)
            IN <<[x |-> y, n |-> T[N].right,
                  priority |-> TraversalPriority(depth, y[i].u - k, y[i])]>>
       ELSE <<>>

\* what refine pushes on its two queues at the split node N of tree T
refine_split(x_prime, T, N, t) ==
    LET i == T[N].i
        k == T[N].k
        depth == binary_tree_node_get_depth(T, N)
    IN IF x_prime[i].l <= k /\ x_prime[i].u > k
       THEN LET x_left == adjust_tier([x_prime EXCEPT ![i].u = min(@, k)], t, i, FALSE)
                x_right == adjust_tier(
                    [x_prime EXCEPT ![i].l = max(x_left[i].u, k + EPSILON)], t, i, TRUE)
            IN <<[x |-> x_left, n |-> T[N].left,
                  priority |-> TraversalPriority(depth, k - x_left[i].l, x_left[i])],
                 [x |-> x_right, n |-> T[N].right,
                  priority |-> TraversalPriority(depth, x_left[i].u - k, x_left[i])]>>
       ELSE IF x_prime[i].u <= k
       THEN LET y == adjust_tier(x_prime, t, i, FALSE)
            IN <<[x |-> y, n |-> T[N].left,
                  priority |-> TraversalPriority(depth, k - y[i].l, y[i])]>>
       ELSE IF x_prime[i].l > k
       THEN LET y == adjust_tier(x_prime, t, i, TRUE)
            IN <<[x |-> y, n |-> T[N].right,
                  priority |-> TraversalPriority(depth, y[i].u - k, y[i])]>>
       ELSE <<>>

RECURSIVE PushAll(_, _, _)
PushAll(P, pushes, field) ==
    IF pushes = <<>> THEN P
    ELSE PushAll(priority_queue_push(P, Head(pushes)[field], Head(pushes).priority),
                 Tail(pushes), field)

\* variant: a child whose labels equal labels_a is kept for the search
refine_leaf_keeps_robust(labels, labels_a) ==
    IF set_is_disjoint(labels, labels_a) THEN "counterexample"
    ELSE "refined"

\* what refine does with the child h it has just created at a leaf
refine_leaf(labels, labels_a) ==
    IF set_is_disjoint(labels, labels_a) THEN "counterexample"
    ELSE IF set_is_equal(labels, labels_a) THEN "robust"
    ELSE "refined"

\* variant: only labels disjoint from labels_a make a counterexample
refine_terminal_disjoint(labels, labels_a) ==
    IF set_is_disjoint(labels, labels_a) THEN "counterexample" ELSE "none"

\* what refine does with a decorator that fixes a leaf of every tree
refine_terminal(labels, labels_a) ==
    IF ~ set_is_equal(labels, labels_a) THEN "counterexample" ELSE "none"

Start ==
    /\ pc = "init"
    /\ LET sample == IF status.has_sample THEN status.sample_a
                     ELSE hyperrectangle_midpoint(H)
           labels == IF status.has_sample THEN status.labels_a
                     ELSE forest_classify(F, sample)
       IN status' = [status EXCEPT !.sample_a = sample, !.labels_a = labels]
    /\ decs' = <<Decorator(H, NULL, 0)>>
    /\ internal_status' = "DONT_KNOW"
    /\ expired' = FALSE
    /\ local_labels' = <<>>
    /\ Q' = priority_queue_push(EmptyHeap, 1, Fin(0, 1))
    /\ refined' = <<>>
    /\ hist' = [hist EXCEPT !.hyper_new = @ + 1, !.dec_new = @ + 1,
                            !.buf_new = @ + n_buffers]
    /\ pc' = "loop"
    /\ UNCHANGED <<call, dump, F, tier, H, cur, Qx, Qt, S, goal>>

\* the wall clock passes the timeout
Tick ==
    /\ pc \in {"loop", "inner", "enqueue"}
    /\ ~ expired
    /\ expired' = TRUE
    /\ UNCHANGED <<call, dump, F, tier, H, status, internal_status, decs, Q, cur, Qx, Qt,
                   refined, local_labels, S, goal, hist, pc>>

\* best_first_search pops a decorator and evaluates the goal predicate on it
PopGoal ==
    /\ pc = "loop"
    /\ ~ priority_queue_is_empty(Q)
    /\ is_complete(internal_status, expired).stop
    /\ Q' = priority_queue_pop(Q)
    /\ internal_status' = is_complete(internal_status, expired).internal_status
    /\ hist' = [hist EXCEPT !.timeout = @ \/ (internal_status = "DONT_KNOW" /\ expired)]
    /\ pc' = "exit"
    /\ UNCHANGED <<call, dump, F, tier, H, status, expired, decs, cur, Qx, Qt, refined,
                   local_labels, S, goal>>

\* ... or starts to refine it: the decorator fixes every tree
PopTerminal ==
    /\ pc = "loop"
    /\ ~ priority_queue_is_empty(Q)
    /\ ~ is_complete(internal_status, expired).stop
    /\ LET x == priority_queue_peek(Q)
       IN /\ decorator_get_depth(decs, x) = Len(F)
          /\ cur' = x
          /\ IF refine_terminal(decs[x].labels, status.labels_a) = "counterexample"
             THEN /\ internal_status' = "UNSTABLE"
                  /\ status' = [status EXCEPT
                                   !.sample_b = hyperrectangle_midpoint(decs[x].x)]
                  /\ hist' = [hist EXCEPT !.cex = TRUE, !.b_writes = @ + 1,
                                          !.refines = @ + 1]
             ELSE /\ internal_status' = is_complete(internal_status, expired).internal_status
                  /\ hist' = [hist EXCEPT !.refines = @ + 1]
                  /\ UNCHANGED status
    /\ Q' = priority_queue_pop(Q)
    /\ pc' = "enqueue"
    /\ UNCHANGED <<call, dump, F, tier, H, expired, decs, Qx, Qt, refined, local_labels, S, goal>>

\* ... or starts to refine it: the next tree is traversed from its root
PopRefine ==
    /\ pc = "loop"
    /\ ~ priority_queue_is_empty(Q)
    /\ ~ is_complete(internal_status, expired).stop
    /\ LET x == priority_queue_peek(Q)
       IN /\ decorator_get_depth(decs, x) # Len(F)
          /\ cur' = x
          /\ Qx' = priority_queue_push(EmptyHeap, decs[x].x, Fin(0, 1))
          /\ Qt' = priority_queue_push(EmptyHeap, 1, Fin(0, 1))
    /\ Q' = priority_queue_pop(Q)
    /\ internal_status' = is_complete(internal_status, expired).internal_status
    /\ hist' = [hist EXCEPT !.refines = @ + 1, !.hyper_new = @ + 1]
    /\ pc' = "inner"
    /\ UNCHANGED <<call, dump, F, tier, H, status, expired, decs, refined,
                   local_labels, S, goal>>

\* one iteration of the loop of refine: a leaf of trees[depth] is reached
InnerLeaf ==
    /\ pc = "inner"
    /\ ~ priority_queue_is_empty(Qx)
    /\ binary_tree_node_is_leaf(F[decorator_get_depth(decs, cur) + 1],
                                priority_queue_peek(Qt))
    /\ LET x_prime == priority_queue_peek(Qx)
           N == priority_queue_peek(Qt)
           t == decorator_get_depth(decs, cur) + 1
           h == Len(decs) + 1
       IN \E created \in {Append([decs EXCEPT ![cur].children = Append(@, h)],
                                 Decorator(x_prime, LeafRef(t, N), cur))} :
          \E scores \in {decorator_score_overapproximate(F, created, h)} :
          \E labels \in {decorator_compute_labels(F, created, h)} :
          \E outcome \in {refine_leaf(labels, status.labels_a)} :
             /\ decs' = [created EXCEPT ![h].labels = labels, ![h].scores = scores]
             /\ IF outcome = "counterexample"
                THEN /\ internal_status' = "UNSTABLE"
                     /\ status' = [status EXCEPT
                                      !.sample_b = hyperrectangle_midpoint(x_prime)]
                     /\ hist' = [hist EXCEPT !.cex = TRUE, !.b_writes = @ + 1,
                                             !.dec_new = @ + 1]
                     /\ pc' = "break"
                     /\ UNCHANGED refined
                ELSE /\ refined' = IF outcome = "refined" THEN Append(refined, h)
                                   ELSE refined
                     /\ hist' = [hist EXCEPT !.dec_new = @ + 1]
                     /\ UNCHANGED <<internal_status, status, pc>>
    /\ Qx' = priority_queue_pop(Qx)
    /\ Qt' = priority_queue_pop(Qt)
    /\ UNCHANGED <<call, dump, F, tier, H, expired, Q, cur, local_labels, S, goal>>

\* variant: the tree nodes of a crossed split are pushed right child first
InnerSplit_right_first ==
    /\ pc = "inner"
    /\ ~ priority_queue_is_empty(Qx)
    /\ LET x_prime == priority_queue_peek(Qx)
           N == priority_queue_peek(Qt)
           t == decorator_get_depth(decs, cur) + 1
           pushes == refine_split(x_prime, F[t], N, tier)
           reversed == [j \in 1 .. Len(pushes) |-> pushes[Len(pushes) + 1 - j]]
       IN /\ ~ binary_tree_node_is_leaf(F[t], N)
          /\ Qx' = PushAll(priority_queue_pop(Qx), pushes, "x")
          /\ Qt' = PushAll(priority_queue_pop(Qt), reversed, "n")
          /\ hist' = [hist EXCEPT !.hyper_new = @ + (Len(pushes) - 1)]
    /\ UNCHANGED <<call, dump, F, tier, H, status, internal_status, expired, decs, Q, cur,
                   refined, local_labels, S, goal, pc>>

\* variant: the popped pair is pushed again instead of the children
InnerSplit_no_descent ==
    /\ pc = "inner"
    /\ ~ priority_queue_is_empty(Qx)
    /\ LET x_prime == priority_queue_peek(Qx)
           N == priority_queue_peek(Qt)
           t == decorator_get_depth(decs, cur) + 1
           again == <<[x |-> x_prime, n |-> N, priority |-> Qx.nodes[1].key]>>
       IN /\ ~ binary_tree_node_is_leaf(F[t], N)
          /\ Qx' = PushAll(priority_queue_pop(Qx), again, "x")
          /\ Qt' = PushAll(priority_queue_pop(Qt), again, "n")
          /\ hist' = hist
    /\ UNCHANGED <<call, dump, F, tier, H, status, internal_status, expired, decs, Q, cur,
                   refined, local_labels, S, goal, pc>>

\* one iteration of the loop of refine: a split of trees[depth] is reached
InnerSplit ==
    /\ pc = "inner"
    /\ ~ priority_queue_is_empty(Qx)
    /\ LET x_prime == priority_queue_peek(Qx)
           N == priority_queue_peek(Qt)
           t == decorator_get_depth(decs, cur) + 1
           pushes == refine_split(x_prime, F[t], N, tier)
       IN /\ ~ binary_tree_node_is_leaf(F[t], N)
          /\ Qx' = PushAll(priority_queue_pop(Qx), pushes, "x")
          /\ Qt' = PushAll(priority_queue_pop(Qt), pushes, "n")
          /\ hist' = [hist EXCEPT !.hyper_new = @ + (Len(pushes) - 1)]
    /\ UNCHANGED <<call, dump, F, tier, H, status, internal_status, expired, decs, Q, cur,
                   refined, local_labels, S, goal, pc>>

\* variant: refine gives up as soon as the time has expired
RefineEnd_on_timeout ==
    /\ \/ pc = "break"
       \/ pc = "inner" /\ (priority_queue_is_empty(Qx) \/ expired)
    /\ Qx' = EmptyHeap
    /\ Qt' = EmptyHeap
    /\ decs' = [decs EXCEPT ![cur].x = NULL]
    /\ hist' = [hist EXCEPT !.hyper_del = @ + Qx.size + 1]
    /\ pc' = "enqueue"
    /\ UNCHANGED <<call, dump, F, tier, H, status, internal_status, expired, Q, cur, refined,
                   local_labels, S, goal>>

\* variant: the regions still waiting in Qx are not released
RefineEnd_keeps_waiting ==
    /\ \/ pc = "break"
       \/ pc = "inner" /\ priority_queue_is_empty(Qx)
    /\ Qx' = EmptyHeap
    /\ Qt' = EmptyHeap
    /\ decs' = [decs EXCEPT ![cur].x = NULL]
    /\ hist' = [hist EXCEPT !.hyper_del = @ + 1]
    /\ pc' = "enqueue"
    /\ UNCHANGED <<call, dump, F, tier, H, status, internal_status, expired, Q, cur, refined,
                   local_labels, S, goal>>

\* the end of refine: what is left in the queues is released, and so is the
\* region of the refined decorator
RefineEnd ==
    /\ \/ pc = "break"
       \/ pc = "inner" /\ priority_queue_is_empty(Qx)
    /\ Qx' = EmptyHeap
    /\ Qt' = EmptyHeap
    /\ decs' = [decs EXCEPT ![cur].x = NULL]
    /\ hist' = [hist EXCEPT !.hyper_del = @ + Qx.size + 1]
    /\ pc' = "enqueue"
    /\ UNCHANGED <<call, dump, F, tier, H, status, internal_status, expired, Q, cur, refined,
                   local_labels, S, goal>>

\* best_first_search moves the refined decorators to the frontier, last first
RECURSIVE EnqueueAll(_, _, _, _, _)
EnqueueAll(P, D, adjacent, abstract_labels, labels_a) ==
    IF adjacent = <<>> THEN [Q |-> P, local_labels |-> abstract_labels]
    ELSE LET y == adjacent[Len(adjacent)]
         IN EnqueueAll(
                priority_queue_push(P, y, compute_priority(D, y, abstract_labels, labels_a)),
                D, SubSeq(adjacent, 1, Len(adjacent) - 1),
                set_intersection(abstract_labels, labels_a), labels_a)

\* variant: the list of adjacent nodes is read and not emptied
Enqueue_keeps_list ==
    /\ pc = "enqueue"
    /\ LET r == EnqueueAll(Q, decs, refined, local_labels, status.labels_a)
       IN /\ Q' = r.Q
          /\ local_labels' = r.local_labels
    /\ refined' = refined
    /\ pc' = "loop"
    /\ UNCHANGED <<call, dump, F, tier, H, status, internal_status, expired, decs, cur, Qx, Qt,
                   S, goal, hist>>

Enqueue ==
    /\ pc = "enqueue"
    /\ LET r == EnqueueAll(Q, decs, refined, local_labels, status.labels_a)
       IN /\ Q' = r.Q
          /\ local_labels' = r.local_labels
    /\ refined' = <<>>
    /\ pc' = "loop"
    /\ UNCHANGED <<call, dump, F, tier, H, status, internal_status, expired, decs, cur, Qx, Qt,
                   S, goal, hist>>

\* the search is over: the verdict is set and the memory released
Finish ==
    /\ \/ pc = "exit"
       \/ pc = "loop" /\ priority_queue_is_empty(Q)
    /\ status' = [status EXCEPT !.result = CheckResult(internal_status)]
    /\ hist' = [hist EXCEPT
                    !.exhausted = (pc = "loop"),
                    !.dec_del = @ + decorator_delete(decs, 1).decorators,
                    !.hyper_del = @ + decorator_delete(decs, 1).hyperrectangles,
                    !.buf_del = @ + n_buffers]
    /\ Q' = EmptyHeap
    /\ decs' = <<>>
    /\ pc' = "done"
    /\ UNCHANGED <<call, dump, F, tier, H, internal_status, expired, cur, Qx, Qt, refined,
                   local_labels, S, goal>>

\* what a read of memory that was never written may give
Indeterminate ==
    {[i \in Features |-> v] : v \in {Interval(0, 0), Interval(0, MaxVal), Interval(MaxVal, 0)}}

\* the driver exports the region of the status of an unstable sample
Dump ==
    /\ pc = "done"
    /\ status.result = "STABILITY_FALSE"
    /\ IF status.region = Uninit THEN dump' \in Indeterminate
       ELSE dump' = status.region
    /\ pc' = "dumped"
    /\ UNCHANGED <<call, F, tier, H, status, internal_status, expired, decs, Q, cur,
                   Qx, Qt, refined, local_labels, S, goal, hist>>

Next ==
    \/ Start
    \/ Tick
    \/ PopGoal
    \/ PopTerminal
    \/ PopRefine
    \/ InnerLeaf
    \/ InnerSplit
    \/ RefineEnd
    \/ Enqueue
    \/ Finish
    \/ Dump

Spec == Init /\ [][Next]_vars

\* the steps of forest_hyperrectangle_is_stable itself, without the clock
Step ==
    \/ Start
    \/ PopGoal
    \/ PopTerminal
    \/ PopRefine
    \/ InnerLeaf
    \/ InnerSplit
    \/ RefineEnd
    \/ Enqueue
    \/ Finish

NextLive ==
    \/ Step
    \/ Tick

\* the calls whose termination is followed: no tier or one tier of all the
\* features, the sample left to the verifier, a region that is a segment of
\* feature 0
InitLive ==
    /\ F \in Forests
    /\ tier \in {[i \in Features |-> g] : g \in 0 .. 1}
    /\ H \in {x \in ForestRegions : x[1].u = 0}
    /\ status = StatusOf(FALSE, LowerCorner(H), forest_classify(F, LowerCorner(H)))
    /\ Idle

\* the verifier is one sequential program: a step that can be taken is taken,
\* while the clock may never pass the timeout; every step of the verifier moves
\* the program counter or one of the two queues of refine
SpecLive == InitLive /\ [][NextLive]_vars /\ WF_<<pc, Qx, Qt>>(Step)

(***************************************************************************)
(* Single-tree verifier: decision_tree_hyperrectangle_is_stable,           *)
(* search_counterexample and depth_first_search                            *)
(* (decision_tree_hyperrectangle.c, depth_first.c).                        *)
(***************************************************************************)
\* labels of a leaf: every label whose score equals the maximum
leaf_scores_to_labels(scores) ==
    LET m == MaxSeq(scores)
        add[i \in 0 .. n_labels] ==
            IF i = 0 THEN <<>>
            ELSE IF scores[i] = m THEN set_add_element(add[i - 1], Labels[i])
            ELSE add[i - 1]
    IN add[n_labels]

is_counterexample_leaf(T, node, concrete_labels) ==
    IF T[node].type = "leaf"
    THEN ~ set_is_equal(concrete_labels, leaf_scores_to_labels(T[node].scores))
    ELSE FALSE

\* variant: the left child is reached only when the region starts below k
compute_reachable_paths_below(T, node, x) ==
    IF T[node].type = "leaf" THEN <<>>
    ELSE LET i == T[node].i
             k == T[node].k
             L1 == IF x[i].l < k THEN <<T[node].left>> ELSE <<>>
         IN IF x[i].u > k THEN Append(L1, T[node].right) ELSE L1

\* the list of the children of node that the region x may reach
compute_reachable_paths(T, node, x) ==
    IF T[node].type = "leaf" THEN <<>>
    ELSE LET i == T[node].i
             k == T[node].k
             L1 == IF x[i].l <= k THEN <<T[node].left>> ELSE <<>>
         IN IF x[i].u > k THEN Append(L1, T[node].right) ELSE L1

\* Rebuilds path from a leaf to its root, refining a hyperrectangle
RECURSIVE leaf_to_hyperrectangle(_, _, _)
leaf_to_hyperrectangle(x, T, leaf) ==
    IF binary_tree_node_is_root(T, leaf) THEN x
    ELSE LET previous == leaf
             current == T[previous].parent
             i == T[current].i
             k == T[current].k
             y == IF T[current].left = previous
                  THEN [x EXCEPT ![i].u = min(x[i].u, k)]
                  ELSE IF T[current].right = previous
                  THEN [x EXCEPT ![i].l = max(x[i].u, k)]
                  ELSE x
         IN leaf_to_hyperrectangle(y, T, current)

\* stack_push(S, list_pop(adjacent_nodes)) until the list is empty
RECURSIVE PushPopped(_, _)
PushPopped(St, L) ==
    IF L = <<>> THEN St
    ELSE PushPopped(Append(St, L[Len(L)]), SubSeq(L, 1, Len(L) - 1))

SingleTrees == LeafTrees \cup Stumps \cup DeepTrees

InitTree ==
    /\ F \in {<<T>> : T \in SingleTrees}
    /\ tier = [i \in Features |-> 0]
    /\ H \in Regions
    /\ \E has_sample \in BOOLEAN :
          status = StatusOf(has_sample, LowerCorner(H),
                            decision_tree_classify(F[1], LowerCorner(H)))
    /\ Idle

\* decision_tree_hyperrectangle_is_stable up to the start of the search
TreeStart ==
    /\ pc = "init"
    /\ LET sample == IF status.has_sample THEN status.sample_a
                     ELSE hyperrectangle_midpoint(H)
           labels == IF status.has_sample THEN status.labels_a
                     ELSE decision_tree_classify(F[1], sample)
       IN status' = [status EXCEPT !.sample_a = sample, !.labels_a = labels,
                                   !.result = "STABILITY_DONT_KNOW"]
    /\ S' = <<1>>
    /\ goal' = 0
    /\ pc' = "dfs"
    /\ UNCHANGED <<call, dump, F, tier, H, internal_status, expired, decs, Q, cur,
                   Qx, Qt, refined, local_labels, hist>>

\* depth_first_search pops a node that is a goal
DfsGoal ==
    /\ pc = "dfs"
    /\ S # <<>>
    /\ LET x == S[Len(S)]
       IN /\ is_counterexample_leaf(F[1], x, status.labels_a)
          /\ goal' = x
    /\ S' = SubSeq(S, 1, Len(S) - 1)
    /\ pc' = "found"
    /\ UNCHANGED <<call, dump, F, tier, H, status, internal_status, expired, decs, Q,
                   cur, Qx, Qt, refined, local_labels, hist>>

\* depth_first_search pops a node that is not a goal and pushes its adjacents
DfsExpand ==
    /\ pc = "dfs"
    /\ S # <<>>
    /\ LET x == S[Len(S)]
       IN /\ ~ is_counterexample_leaf(F[1], x, status.labels_a)
          /\ S' = PushPopped(SubSeq(S, 1, Len(S) - 1),
                             compute_reachable_paths(F[1], x, H))
    /\ UNCHANGED <<call, dump, F, tier, H, status, internal_status, expired, decs, Q,
                   cur, Qx, Qt, refined, local_labels, goal, hist, pc>>

\* the end of search_counterexample and of the verifier
TreeFinish ==
    /\ \/ pc = "found"
       \/ pc = "dfs" /\ S = <<>>
    /\ IF goal # 0
       THEN LET y == leaf_to_hyperrectangle(H, F[1], goal)
            IN status' = [status EXCEPT !.result = "STABILITY_FALSE",
                                        !.sample_b = hyperrectangle_midpoint(y)]
       ELSE status' = [status EXCEPT !.result = "STABILITY_TRUE"]
    /\ S' = <<>>
    /\ pc' = "done"
    /\ UNCHANGED <<call, dump, F, tier, H, internal_status, expired, decs, Q, cur,
                   Qx, Qt, refined, local_labels, goal, hist>>

NextTree ==
    \/ TreeStart
    \/ DfsGoal
    \/ DfsExpand
    \/ TreeFinish
    \/ Dump

SpecTree == InitTree /\ [][NextTree]_vars

(***************************************************************************)
(* Functions of the analysis applied to arguments of their own.            *)
(***************************************************************************)
Labels3 == <<"A", "B", "C">>

ScoreIntervals == [l : 0 .. MaxTrees, u : 0 .. MaxTrees]

ScoreVectors == [1 .. Len(Labels3) -> ScoreIntervals]

\* one-hot encoded features: three of them, with bounds 0, 0.5 and 1
TierFeatures == 0 .. 2
TierIntervals == {x \in [l : {0, One \div 2, One}, u : {0, One \div 2, One}] : x.l <= x.u}

Calls ==
    {[fn |-> "reachable_leaves", T |-> T, x |-> x, out |-> NULL] :
        T \in SingleTrees, x \in Regions}
    \cup {[fn |-> "scores_to_labels", scores |-> s, labels |-> Labels3, out |-> NULL] :
        s \in ScoreVectors}
    \cup {[fn |-> "adjust_tier", x |-> x, tier |-> t, i |-> i, is_active |-> a,
           out |-> NULL] :
        x \in [TierFeatures -> TierIntervals], t \in [TierFeatures -> 0 .. 2],
        i \in TierFeatures, a \in BOOLEAN}

\* reachable_leaves under regions that have an empty interval
BottomRegions ==
    {x \in [Features -> [l : Vals, u : Vals]] : hyperrectangle_is_bottom(x)}
BottomCalls ==
    {[fn |-> "reachable_leaves", T |-> T, x |-> x, out |-> NULL] :
        T \in SingleTrees, x \in BottomRegions}

\* region.sample[i] -+ magnitude in every dimension
region_to_hyperrectangle_l_inf(sample, magnitude) ==
    [i \in DOMAIN sample |-> Interval(sample[i] - magnitude, sample[i] + magnitude)]

\* the same, the lower bounds raised to lo and the upper bounds lowered to hi
region_to_hyperrectangle_l_inf_clip_all(sample, magnitude, lo, hi) ==
    [i \in DOMAIN sample |->
        Interval(max(sample[i] - magnitude, lo), min(sample[i] + magnitude, hi))]

\* adversarial regions: a sample, a magnitude >= 0 and clip bounds lo <= hi
RegionCalls ==
    {[fn |-> f, sample |-> a, magnitude |-> r, min |-> c.l, max |-> c.u, out |-> NULL] :
        f \in {"PERTURBATION_L_INF", "PERTURBATION_L_INF_CLIP_ALL"},
        a \in [Features -> Vals], r \in Vals, c \in Intervals}

\* reachable_leaves followed iteration by iteration, S being its stack
StepCalls ==
    {[fn |-> "reachable_leaves_steps", T |-> T, x |-> x, out |-> <<>>] :
        T \in SingleTrees, x \in Regions}

\* pairs of sets built with set_add_element from up to three labels
SetCalls ==
    LET Built == UNION {{set_add_element(set_add_element(set_add_element(<<>>, a), b), c),
                         set_add_element(set_add_element(<<>>, a), b),
                         set_add_element(<<>>, a), <<>>} :
                            a \in Elems(Labels3), b \in Elems(Labels3), c \in Elems(Labels3)}
    IN {[fn |-> "set_is_proper_subset", A |-> A, B |-> B, out |-> NULL] :
            A \in Built, B \in Built}

\* operands of the interval arithmetic, bottoms included
MaxArith == 2
ArithIntervals == [l : -MaxArith .. MaxArith, u : -MaxArith .. MaxArith]
ArithOps == {"interval_add", "interval_sub", "interval_mul", "interval_fma", "interval_glb"}
ArithCalls ==
    {[fn |-> f, alpha |-> a, x |-> x, y |-> y, out |-> NULL] :
        f \in ArithOps, a \in {-1, 1}, x \in ArithIntervals, y \in ArithIntervals}

InitFn ==
    /\ call \in Calls \cup BottomCalls \cup ArithCalls \cup SetCalls \cup StepCalls
                 \cup RegionCalls
    /\ F = <<>>
    /\ tier = [i \in Features |-> 0]
    /\ H = [i \in Features |-> Interval(0, 0)]
    /\ status = StatusOf(FALSE, NULL, NULL)
    /\ internal_status = Uninit
    /\ expired = FALSE
    /\ decs = <<>>
    /\ Q = EmptyHeap
    /\ cur = 0
    /\ Qx = EmptyHeap
    /\ Qt = EmptyHeap
    /\ refined = <<>>
    /\ local_labels = <<>>
    /\ S = <<>>
    /\ goal = 0
    /\ hist = NoHist
    /\ dump = NULL
    /\ pc = "call"

ApplyReachableLeaves ==
    /\ pc = "call"
    /\ call.fn = "reachable_leaves"
    /\ call' = [call EXCEPT !.out = reachable_leaves(call.T, call.x)]
    /\ pc' = "return"
    /\ UNCHANGED <<dump, F, tier, H, status, internal_status, expired, decs, Q, cur,
                   Qx, Qt, refined, local_labels, S, goal, hist>>

ApplyScoresToLabels ==
    /\ pc = "call"
    /\ call.fn = "scores_to_labels"
    /\ call' = [call EXCEPT !.out = scores_to_labels(call.scores, call.labels)]
    /\ pc' = "return"
    /\ UNCHANGED <<dump, F, tier, H, status, internal_status, expired, decs, Q, cur,
                   Qx, Qt, refined, local_labels, S, goal, hist>>

ApplyAdjustTier ==
    /\ pc = "call"
    /\ call.fn = "adjust_tier"
    /\ call' = [call EXCEPT !.out = adjust_tier(call.x, call.tier, call.i, call.is_active)]
    /\ pc' = "return"
    /\ UNCHANGED <<dump, F, tier, H, status, internal_status, expired, decs, Q, cur,
                   Qx, Qt, refined, local_labels, S, goal, hist>>

ApplyIntervalOp ==
    /\ pc = "call"
    /\ call.fn \in ArithOps
    /\ call' = [call EXCEPT !.out =
                    CASE call.fn = "interval_add" -> interval_add(call.x, call.y)
                      [] call.fn = "interval_sub" -> interval_sub(call.x, call.y)
                      [] call.fn = "interval_mul" -> interval_mul(call.x, call.y)
                      [] call.fn = "interval_fma" ->
                             interval_fma(call.alpha, call.x, call.y)
                      [] call.fn = "interval_glb" -> interval_glb(call.x, call.y)]
    /\ pc' = "return"
    /\ UNCHANGED <<dump, F, tier, H, status, internal_status, expired, decs, Q, cur,
                   Qx, Qt, refined, local_labels, S, goal, hist>>

ApplySetIsProperSubset ==
    /\ pc = "call"
    /\ call.fn = "set_is_proper_subset"
    /\ call' = [call EXCEPT !.out = set_is_proper_subset(call.A, call.B)]
    /\ pc' = "return"
    /\ UNCHANGED <<dump, F, tier, H, status, internal_status, expired, decs, Q, cur,
                   Qx, Qt, refined, local_labels, S, goal, hist>>

\* adversarial_region_to_hyperrectangle, as classifier_hyperrectangle_is_stable
\* calls it before the verifier
ApplyAdversarialRegion ==
    /\ pc = "call"
    /\ call.fn \in {"PERTURBATION_L_INF", "PERTURBATION_L_INF_CLIP_ALL"}
    /\ call' = [call EXCEPT !.out =
                    IF call.fn = "PERTURBATION_L_INF"
                    THEN region_to_hyperrectangle_l_inf(call.sample, call.magnitude)
                    ELSE region_to_hyperrectangle_l_inf_clip_all(
                             call.sample, call.magnitude, call.min, call.max)]
    /\ pc' = "return"
    /\ UNCHANGED <<dump, F, tier, H, status, internal_status, expired, decs, Q, cur,
                   Qx, Qt, refined, local_labels, S, goal, hist>>

\* variant: the node on top of the stack is read and left on the stack
ReachableLeavesIteration_peek ==
    /\ call.fn = "reachable_leaves_steps"
    /\ \/ /\ pc = "call"
          /\ S' = <<1>>
          /\ pc' = "while"
          /\ call' = call
       \/ /\ pc = "while"
          /\ S # <<>>
          /\ LET n == S[Len(S)]
                 T == call.T
                 i == T[n].i
                 k == T[n].k
                 S1 == IF call.x[i].l <= k THEN Append(S, T[n].left) ELSE S
                 S2 == IF call.x[i].u > k THEN Append(S1, T[n].right) ELSE S1
             IN IF T[n].type = "leaf"
                THEN S' = S /\ call' = [call EXCEPT !.out = Append(@, n)]
                ELSE S' = S2 /\ call' = call
          /\ pc' = pc
       \/ /\ pc = "while"
          /\ S = <<>>
          /\ pc' = "return"
          /\ UNCHANGED <<S, call>>
    /\ UNCHANGED <<dump, F, tier, H, status, internal_status, expired, decs, Q, cur,
                   Qx, Qt, refined, local_labels, goal, hist>>

\* reachable_leaves: the entry, one iteration of the loop, or the return
ReachableLeavesIteration ==
    /\ call.fn = "reachable_leaves_steps"
    /\ \/ /\ pc = "call"
          /\ S' = <<1>>
          /\ pc' = "while"
          /\ call' = call
       \/ /\ pc = "while"
          /\ S # <<>>
          /\ LET n == S[Len(S)]
                 popped == SubSeq(S, 1, Len(S) - 1)
                 T == call.T
                 i == T[n].i
                 k == T[n].k
                 S1 == IF call.x[i].l <= k THEN Append(popped, T[n].left) ELSE popped
                 S2 == IF call.x[i].u > k THEN Append(S1, T[n].right) ELSE S1
             IN IF T[n].type = "leaf"
                THEN S' = popped /\ call' = [call EXCEPT !.out = Append(@, n)]
                ELSE S' = S2 /\ call' = call
          /\ pc' = pc
       \/ /\ pc = "while"
          /\ S = <<>>
          /\ pc' = "return"
          /\ UNCHANGED <<S, call>>
    /\ UNCHANGED <<dump, F, tier, H, status, internal_status, expired, decs, Q, cur,
                   Qx, Qt, refined, local_labels, goal, hist>>

NextFn ==
    \/ ApplyReachableLeaves
    \/ ApplyScoresToLabels
    \/ ApplyAdjustTier
    \/ ApplyIntervalOp
    \/ ApplySetIsProperSubset
    \/ ReachableLeavesIteration
    \/ ApplyAdversarialRegion

SpecFn == InitFn /\ [][NextFn]_vars

(***************************************************************************)
(* Properties of the forest verifier (Spec).                               *)
(***************************************************************************)
\* C1: if forest_hyperrectangle_is_stable finishes with STABILITY_TRUE, every
\* point of the region H is classified by the forest exactly as labels_a,
\* also when labels_a holds several tied labels.
C1_StableIsSound ==
    (pc \in {"done", "dumped"} /\ status.result = "STABILITY_TRUE") =>
        \A p \in PointsOf(H) : set_is_equal(forest_classify(F, p), status.labels_a)

\* C2: if forest_hyperrectangle_is_stable finishes with STABILITY_FALSE, the
\* witness sample_b lies inside the original region H and the forest gives it
\* labels different from labels_a, whatever the tier vector.
C2_WitnessIsValid ==
    (pc \in {"done", "dumped"} /\ status.result = "STABILITY_FALSE") =>
        /\ InRegion(status.sample_b, H)
        /\ ~ set_is_equal(forest_classify(F, status.sample_b), status.labels_a)

\* C4: a finished run of the forest verifier has exactly one verdict:
\* STABILITY_FALSE iff a refine step detected a counterexample,
\* STABILITY_DONT_KNOW iff the goal predicate observed the timeout with no
\* counterexample detected, STABILITY_TRUE iff the frontier became empty with
\* neither having happened.
C4_VerdictDetermined ==
    pc \in {"done", "dumped"} =>
        /\ status.result \in {"STABILITY_TRUE", "STABILITY_FALSE", "STABILITY_DONT_KNOW"}
        /\ status.result = "STABILITY_FALSE" <=> hist.cex
        /\ status.result = "STABILITY_DONT_KNOW" <=> (hist.timeout /\ ~ hist.cex)
        /\ status.result = "STABILITY_TRUE" <=>
               (hist.exhausted /\ ~ hist.cex /\ ~ hist.timeout)

\* a run that the timeout ended with the frontier not empty
C4_Witness ==
    /\ pc = "done"
    /\ status.result = "STABILITY_DONT_KNOW"
    /\ hist.timeout
    /\ hist.refines > 0

\* C5: when a verifier finishes with STABILITY_FALSE, the analysis has set
\* status.region to a hyperrectangle that contains sample_b and lies in the
\* original region, and this is the region the driver dumps.
C5_RegionIsWitnessRegion ==
    (pc \in {"done", "dumped"} /\ status.result = "STABILITY_FALSE") =>
        /\ status.region # Uninit
        /\ InRegion(status.sample_b, status.region)
        /\ SubRegion(status.region, H)
        /\ pc = "dumped" => dump = status.region

\* C6: the timeout is observed by the goal predicate only, evaluated at a pop
\* before the refine step: a refine step that has started runs until its
\* queue is empty or a counterexample is found, also when the time expires
\* meanwhile, and nothing is refined once the timeout has been reported.
C6_TimeoutBetweenSteps ==
    [][/\ (internal_status # "ABORTED" /\ internal_status' = "ABORTED") =>
              (pc = "loop" /\ expired /\ pc' = "exit")
       /\ hist'.refines # hist.refines =>
              (pc = "loop" /\ ~ is_complete(internal_status, expired).stop)
       /\ (pc = "inner" /\ pc' # "inner") =>
              \/ pc' = "break" /\ internal_status' = "UNSTABLE"
              \/ pc' = "enqueue" /\ priority_queue_is_empty(Qx)
       /\ internal_status = "ABORTED" =>
              (hist'.refines = hist.refines /\ decs' \in {decs, <<>>}
               /\ pc' \in {"exit", "done"})
      ]_vars

\* the time has expired in the middle of a refine step
C6_Witness ==
    /\ pc = "inner"
    /\ expired
    /\ ~ priority_queue_is_empty(Qx)
    /\ Len(decs) > 1

\* C7: once a refine step has detected a counterexample, the goal predicate
\* is true at the next pop, no decorator is refined any more and sample_b is
\* not written again.
C7_StopAfterCounterexample ==
    [][internal_status = "UNSTABLE" =>
          /\ is_complete(internal_status, expired).stop
          /\ (pc = "loop" /\ ~ priority_queue_is_empty(Q) /\ pc' # pc) => pc' = "exit"
          /\ hist'.refines = hist.refines
          /\ hist'.b_writes = hist.b_writes
          /\ status'.sample_b = status.sample_b
          /\ Len(decs') <= Len(decs)
      ]_vars

\* a counterexample has been detected and the frontier is not empty
C7_Witness ==
    /\ internal_status = "UNSTABLE"
    /\ pc = "loop"
    /\ ~ priority_queue_is_empty(Q)

\* C8: under MAX voting, the score intervals computed for a decorator with a
\* non-bottom region contain, for every point of the region that reaches the
\* leaves fixed by the decorator and its ancestors, the number of trees in
\* which each label ties for the maximum at the leaf the point reaches.
C8_ScoresAreSound ==
    \A d \in 1 .. Len(decs) :
        (decs[d].scores # NULL /\ decs[d].x # NULL
         /\ ~ hyperrectangle_is_bottom(decs[d].x)) =>
            LET fixed[a \in 0 .. Len(decs)] ==
                    IF a = 0 \/ decs[a].leaf = NULL THEN {}
                    ELSE {decs[a].leaf} \cup fixed[decs[a].parent]
            IN \A p \in PointsOf(decs[d].x) :
                   (\A leaf \in fixed[d] : WalkFrom(F[leaf.t], 1, p) = leaf.n) =>
                       \A i \in 1 .. n_labels :
                           /\ decs[d].scores[i].l <= decision_function_max(F, p)[i]
                           /\ decision_function_max(F, p)[i] <= decs[d].scores[i].u

\* a decorator with a leaf fixed, a tree left to overapproximate and a point
\* of its region that reaches the fixed leaf
C8_Witness ==
    \E d \in 1 .. Len(decs) :
        /\ decs[d].scores # NULL
        /\ decs[d].x # NULL
        /\ ~ hyperrectangle_is_bottom(decs[d].x)
        /\ decs[d].leaf # NULL
        /\ Len(F) = MaxTrees
        /\ \E i \in 1 .. n_labels : decs[d].scores[i].l < decs[d].scores[i].u
        /\ \E p \in PointsOf(decs[d].x) :
               WalkFrom(F[decs[d].leaf.t], 1, p) = decs[d].leaf.n

(***************************************************************************)
(* Properties of the single-tree verifier (SpecTree).                      *)
(***************************************************************************)
\* C3: if decision_tree_hyperrectangle_is_stable finishes with
\* STABILITY_FALSE, the witness sample_b lies inside the region, reaches the
\* counterexample leaf and is classified differently from labels_a, also for
\* trees that test a feature twice on a path.
C3_TreeWitnessIsValid ==
    (pc \in {"done", "dumped"} /\ status.result = "STABILITY_FALSE") =>
        /\ InRegion(status.sample_b, H)
        /\ WalkFrom(F[1], 1, status.sample_b) = goal
        /\ ~ set_is_equal(decision_tree_classify(F[1], status.sample_b), status.labels_a)

(***************************************************************************)
(* Properties of the functions (SpecFn).                                   *)
(***************************************************************************)
\* C9: the label set computed from a vector of score intervals holds label i
\* if and only if S[i].u >= S[j].l for every other label j, and nothing else.
C9_LabelsOfScores ==
    (pc = "return" /\ call.fn = "scores_to_labels") =>
        /\ \A i \in 1 .. Len(call.labels) :
               set_has_element(call.out, call.labels[i]) <=>
                   \A j \in 1 .. Len(call.labels) :
                       j # i => call.scores[i].u >= call.scores[j].l
        /\ Elems(call.out) \subseteq Elems(call.labels)
        /\ Cardinality(Elems(call.out)) = Len(call.out)

\* a vector of which one label is dominated and two are kept
C9_Witness ==
    /\ pc = "return"
    /\ call.fn = "scores_to_labels"
    /\ Len(call.out) = 2
    /\ \E i, j \in 1 .. Len(call.labels) : call.scores[i].u < call.scores[j].l

\* C10: the leaf that a point of the region H reaches in the tree T, going
\* left at a split (i, k) exactly when x[i] <= k, is among
\* reachable_leaves(T, H).
C10_ReachableLeavesComplete ==
    (pc = "return" /\ call.fn = "reachable_leaves") =>
        \A p \in PointsOf(call.x) : WalkFrom(call.T, 1, p) \in Elems(call.out)

\* a tree with two splits of which some leaves are returned and one is not
C10_Witness ==
    /\ pc = "return"
    /\ call.fn = "reachable_leaves"
    /\ Len(call.T) = 5
    /\ Len(call.out) = 2
    /\ \E p, q \in PointsOf(call.x) : WalkFrom(call.T, 1, p) # WalkFrom(call.T, 1, q)

(***************************************************************************)
(* The max-priority queue on its own: elements are pushed with ordinary    *)
(* numbers as priorities and popped, in any order of operations.  The      *)
(* element pushed n-th is the number n; call records what was pushed and   *)
(* what each pop returned.                                                 *)
(***************************************************************************)
MaxPushes == 5
MaxKey == 2
QueueKeys == {Fin(n, 1) : n \in 0 .. MaxKey}

InitQueue ==
    /\ Q = EmptyHeap
    /\ call = [fn |-> "priority_queue", pushed |-> <<>>, popped |-> <<>>]
    /\ F = <<>>
    /\ tier = [i \in Features |-> 0]
    /\ H = [i \in Features |-> Interval(0, 0)]
    /\ status = StatusOf(FALSE, NULL, NULL)
    /\ internal_status = Uninit
    /\ expired = FALSE
    /\ decs = <<>>
    /\ cur = 0
    /\ Qx = EmptyHeap
    /\ Qt = EmptyHeap
    /\ refined = <<>>
    /\ local_labels = <<>>
    /\ S = <<>>
    /\ goal = 0
    /\ hist = NoHist
    /\ dump = NULL
    /\ pc = "queue"

QueuePush ==
    /\ pc = "queue"
    /\ Len(call.pushed) < MaxPushes
    /\ \E key \in QueueKeys :
           LET x == Len(call.pushed) + 1
           IN /\ Q' = priority_queue_push(Q, x, key)
              /\ call' = [call EXCEPT !.pushed = Append(@, [data |-> x, key |-> key])]
    /\ UNCHANGED <<dump, F, tier, H, status, internal_status, expired, decs, cur,
                   Qx, Qt, refined, local_labels, S, goal, hist, pc>>

QueuePop ==
    /\ pc = "queue"
    /\ ~ priority_queue_is_empty(Q)
    /\ Q' = priority_queue_pop(Q)
    /\ call' = [call EXCEPT !.popped = Append(@, priority_queue_peek(Q))]
    /\ UNCHANGED <<dump, F, tier, H, status, internal_status, expired, decs, cur,
                   Qx, Qt, refined, local_labels, S, goal, hist, pc>>

NextQueue == QueuePush \/ QueuePop

SpecQueue == InitQueue /\ [][NextQueue]_vars

(***************************************************************************)
(* The list on its own (list.c): an array of capacity cells, the elements  *)
(* in cells from .. to - 1.  call.L is the list, cell i of the array being *)
(* elements[i + 1]; a cell nothing has written holds 0.  Cells past the    *)
(* capacity are memory outside the array: a write there may be kept or     *)
(* lost.  call.added is the sequence of the elements added and not yet     *)
(* removed; the elements are 1, 2, ... in the order of their insertion.    *)
(***************************************************************************)
MaxOps == 5
LIST_SIZE == 2

\* memmove of the elements to the start of the array, then realloc to size
list_resize(L, size) ==
    LET moved == IF L.from # 0
                 THEN [L EXCEPT
                          !.elements = [j \in 1 .. Len(@) |->
                                           IF j <= L.to - L.from THEN @[j + L.from]
                                           ELSE @[j]],
                          !.to = L.to - L.from,
                          !.from = 0]
                 ELSE L
    IN IF size # moved.capacity
       THEN [moved EXCEPT
                !.elements = [j \in 1 .. size |->
                                 IF j <= min(moved.capacity, Len(@)) THEN @[j] ELSE 0],
                !.to = IF moved.to > size THEN size + 1 ELSE moved.to,
                !.capacity = size]
       ELSE moved

InitList ==
    /\ call = [fn |-> "list", ops |-> 0, added |-> <<>>,
               L |-> [elements |-> [j \in 1 .. LIST_SIZE |-> 0],
                      from |-> 0, to |-> 0, capacity |-> LIST_SIZE]]
    /\ Q = EmptyHeap
    /\ F = <<>>
    /\ tier = [i \in Features |-> 0]
    /\ H = [i \in Features |-> Interval(0, 0)]
    /\ status = StatusOf(FALSE, NULL, NULL)
    /\ internal_status = Uninit
    /\ expired = FALSE
    /\ decs = <<>>
    /\ cur = 0
    /\ Qx = EmptyHeap
    /\ Qt = EmptyHeap
    /\ refined = <<>>
    /\ local_labels = <<>>
    /\ S = <<>>
    /\ goal = 0
    /\ hist = NoHist
    /\ dump = NULL
    /\ pc = "list"

\* list_append, list_push: L->elements[L->to] = x after a resize of a full list
ListAppend ==
    /\ pc = "list"
    /\ call.ops < MaxOps
    /\ LET x == call.ops + 1
           L == IF call.L.to - call.L.from = call.L.capacity
                THEN list_resize(call.L, 2 * call.L.capacity)
                ELSE call.L
       IN \E kept \in IF L.to < L.capacity THEN {x} ELSE {x, 0} :
              call' = [call EXCEPT
                          !.ops = x,
                          !.added = Append(@, x),
                          !.L = [L EXCEPT
                                    !.elements = IF L.to < Len(@)
                                                 THEN [@ EXCEPT ![L.to + 1] = kept]
                                                 ELSE Append(@, kept),
                                    !.to = L.to + 1]]
    /\ UNCHANGED <<dump, F, tier, H, status, internal_status, expired, decs, Q, cur,
                   Qx, Qt, refined, local_labels, S, goal, hist, pc>>

\* list_prepend, list_unshift: the cell before from when there is one, else
\* the elements move one cell up
ListPrepend ==
    /\ pc = "list"
    /\ call.ops < MaxOps
    /\ LET x == call.ops + 1
           L == IF call.L.from = 0 /\ call.L.to = call.L.capacity
                THEN list_resize(call.L, 2 * call.L.capacity)
                ELSE call.L
           up == [j \in 1 .. max(Len(L.elements), L.to + 1) |->
                     IF j = 1 THEN x
                     ELSE IF j <= L.to + 1 THEN L.elements[j - 1]
                     ELSE L.elements[j]]
       IN call' = [call EXCEPT
                      !.ops = x,
                      !.added = <<x>> \o @,
                      !.L = IF L.from = 0
                            THEN [L EXCEPT !.elements = up, !.to = L.to + 1]
                            ELSE [L EXCEPT !.elements = [@ EXCEPT ![L.from] = x],
                                           !.from = L.from - 1]]
    /\ UNCHANGED <<dump, F, tier, H, status, internal_status, expired, decs, Q, cur,
                   Qx, Qt, refined, local_labels, S, goal, hist, pc>>

\* list_shift of a list that is not empty
ListShift ==
    /\ pc = "list"
    /\ call.ops < MaxOps
    /\ call.L.to # call.L.from
    /\ call' = [call EXCEPT !.ops = @ + 1,
                            !.added = Tail(@),
                            !.L.from = @ + 1]
    /\ UNCHANGED <<dump, F, tier, H, status, internal_status, expired, decs, Q, cur,
                   Qx, Qt, refined, local_labels, S, goal, hist, pc>>

\* list_pop of a list that is not empty
ListPop ==
    /\ pc = "list"
    /\ call.ops < MaxOps
    /\ call.L.to # call.L.from
    /\ call' = [call EXCEPT !.ops = @ + 1,
                            !.added = SubSeq(@, 1, Len(@) - 1),
                            !.L.to = @ - 1]
    /\ UNCHANGED <<dump, F, tier, H, status, internal_status, expired, decs, Q, cur,
                   Qx, Qt, refined, local_labels, S, goal, hist, pc>>

NextList == ListAppend \/ ListPrepend \/ ListShift \/ ListPop

SpecList == InitList /\ [][NextList]_vars

\* C11: every leaf returned by reachable_leaves(T, H) is reached by at least
\* one point of the non-bottom region H, also in trees that split on a
\* feature twice along a path.
C11_ReachableLeavesSound ==
    (pc = "return" /\ call.fn = "reachable_leaves"
     /\ ~ hyperrectangle_is_bottom(call.x)) =>
        \A j \in 1 .. Len(call.out) :
            \E p \in PointsOf(call.x) : WalkFrom(call.T, 1, p) = call.out[j]

\* C12: after a call of adjust_tier on a hyperrectangle whose tiered features
\* lie within [0,1] (and of which at most one feature of each group had a
\* lower bound above 0 before), at most one feature of every non-zero tier
\* group has a lower bound greater than 0.
C12_TierPreserved ==
    (pc = "return" /\ call.fn = "adjust_tier") =>
        LET positive(x, g) == {j \in TierFeatures : call.tier[j] = g /\ x[j].l > 0}
        IN (\A g \in 1 .. 2 : Cardinality(positive(call.x, g)) <= 1) =>
               \A g \in 1 .. 2 : Cardinality(positive(call.out, g)) <= 1

\* C13: turning feature i of a non-zero group g off sets interval i to [0,0];
\* another interval j changes only to [1,1] and only when j is then the
\* single feature of g that is not [0,0].
C13_TurnOff ==
    (pc = "return" /\ call.fn = "adjust_tier" /\ ~ call.is_active
     /\ call.tier[call.i] # 0) =>
        LET g == call.tier[call.i]
            not_off == {j \in TierFeatures \ {call.i} :
                           call.tier[j] = g /\ call.x[j] # Interval(0, 0)}
        IN /\ call.out[call.i] = Interval(0, 0)
           /\ \A j \in TierFeatures \ {call.i} :
                  call.out[j] # call.x[j] =>
                      (call.out[j] = Interval(One, One) /\ not_off = {j})

\* C14: turning feature i of a non-zero group g on sets interval i to [1,1]
\* and every other feature of g to [0,0] and changes no feature outside g;
\* for a feature of tier 0 adjust_tier changes nothing.
C14_TurnOn ==
    (pc = "return" /\ call.fn = "adjust_tier") =>
        /\ call.tier[call.i] = 0 => call.out = call.x
        /\ (call.tier[call.i] # 0 /\ call.is_active) =>
               \A j \in TierFeatures :
                   call.out[j] = IF j = call.i THEN Interval(One, One)
                                 ELSE IF call.tier[j] = call.tier[call.i]
                                 THEN Interval(0, 0)
                                 ELSE call.x[j]

\* feature 1 of a group of two is turned on next to a feature of another group
C14_Witness ==
    /\ pc = "return"
    /\ call.fn = "adjust_tier"
    /\ call.is_active
    /\ call.i = 1
    /\ call.tier = (0 :> 1 @@ 1 :> 1 @@ 2 :> 2)
    /\ call.x[0] # Interval(0, 0)
    /\ call.out[0] = Interval(0, 0)
    /\ call.out[2] = call.x[2]
    /\ call.x[2] # Interval(0, 0)

\* C15: in a refine step, a child created at a leaf whose label set is
\* disjoint from labels_a makes the status UNSTABLE with sample_b the midpoint
\* of the child's region; a child whose label set equals labels_a is not
\* handed to the frontier; any other child is added exactly once to the list
\* of refined children, which is what the driver enqueues.
C15_ChildrenOfRefine ==
    [][/\ (pc = "inner" /\ Len(decs') = Len(decs) + 1) =>
              LET h == Len(decs')
                  labels == decs'[h].labels
              IN /\ decs'[h].parent = cur
                 /\ labels = scores_to_labels(decs'[h].scores, Labels)
                 /\ IF set_is_disjoint(labels, status.labels_a)
                    THEN /\ internal_status' = "UNSTABLE"
                         /\ status'.sample_b = hyperrectangle_midpoint(decs'[h].x)
                         /\ refined' = refined
                    ELSE /\ internal_status' = internal_status
                         /\ status' = status
                         /\ IF set_is_equal(labels, status.labels_a)
                            THEN refined' = refined
                            ELSE /\ refined' = Append(refined, h)
                                 /\ \A j \in 1 .. Len(refined) : refined[j] # h
       /\ (pc = "inner" /\ Len(decs') = Len(decs)) => refined' = refined
       /\ (pc = "enqueue" /\ pc' = "loop") =>
              /\ Q'.size = Q.size + Len(refined)
              /\ \A j \in 1 .. Len(refined) :
                     \E n \in 1 .. Q'.size : Q'.nodes[n].data = refined[j]
      ]_vars

\* a refine step that has dropped one child as robust and kept another
C15_Witness ==
    /\ pc = "inner"
    /\ Len(refined) = 1
    /\ \E e \in 1 .. Len(decs) :
           /\ decs[e].parent = cur
           /\ e # refined[1]
           /\ set_is_equal(decs[e].labels, status.labels_a)

\* C16: refine of a decorator D whose depth is the number of trees makes the
\* status UNSTABLE with sample_b the midpoint of D's region when D.labels
\* differs from labels_a and leaves the status unchanged otherwise; it
\* creates no decorator and adds nothing to the refined list.
C16_RefineTerminal ==
    [][(pc = "loop" /\ hist'.refines # hist.refines
        /\ decorator_get_depth(decs, priority_queue_peek(Q)) = Len(F)) =>
           LET D == decs[priority_queue_peek(Q)]
           IN /\ IF ~ set_is_equal(D.labels, status.labels_a)
                 THEN /\ internal_status' = "UNSTABLE"
                      /\ status'.sample_b = hyperrectangle_midpoint(D.x)
                 ELSE /\ internal_status' = internal_status
                      /\ status' = status
              /\ decs' = decs
              /\ refined' = refined
              /\ refined = <<>>
      ]_vars

\* a decorator that fixes every tree has been refined and held a
\* counterexample
C16_Witness ==
    /\ pc = "enqueue"
    /\ cur # 0
    /\ decorator_get_depth(decs, cur) = Len(F)
    /\ internal_status = "UNSTABLE"
    /\ decs[cur].x # NULL
    /\ status.sample_b = hyperrectangle_midpoint(decs[cur].x)

\* C17: after any sequence of pushes and pops with ordinary numbers as
\* priorities, pop returns an element whose priority is greater than or equal
\* to the priority of every element that remains in the queue, and the
\* elements returned so far together with those still queued are exactly the
\* elements pushed, each once.
C17_PopIsMaximal ==
    [][/\ Len(call'.popped) = Len(call.popped) + 1 =>
              LET x == call'.popped[Len(call'.popped)]
              IN /\ x \in 1 .. Len(call.pushed)
                 /\ \A j \in 1 .. Q'.size :
                        KeyGE(call.pushed[x].key, Q'.nodes[j].key)
       /\ Len(call'.popped) + Q'.size = Len(call'.pushed)
       /\ {call'.popped[j] : j \in 1 .. Len(call'.popped)}
              \cup {Q'.nodes[j].data : j \in 1 .. Q'.size}
              = 1 .. Len(call'.pushed)
       /\ \A j \in 1 .. Q'.size :
              Q'.nodes[j] = call'.pushed[Q'.nodes[j].data]
      ]_vars

\* every push allowed has been made with priorities not all equal, and
\* every element has been popped again
C17_Witness ==
    /\ pc = "queue"
    /\ Len(call.pushed) = MaxPushes
    /\ Len(call.popped) = MaxPushes
    /\ \E i, j \in 1 .. MaxPushes :
           /\ i < j
           /\ KeyGT(call.pushed[j].key, call.pushed[i].key)
           /\ \E m, n \in 1 .. MaxPushes :
                  m < n /\ call.popped[m] = j /\ call.popped[n] = i

\* C18: among elements of equal priority, the one pushed first is popped
\* first, after any sequence of pushes and pops.
C18_FifoAmongEqual ==
    [][Len(call'.popped) = Len(call.popped) + 1 =>
           LET x == call'.popped[Len(call'.popped)]
           IN \A j \in 1 .. Q'.size :
                  Q'.nodes[j].key = call.pushed[x].key => x < Q'.nodes[j].data
      ]_vars

\* C19: the priority with which a decorator D is enqueued into the frontier
\* is - 1e6 * volume + depth + (|labels(D)| - |labels(D) /\ labels_a|) / K,
\* the label term being computed from D's own overapproximated label set.
C19_LabelTerm ==
    \A j \in 1 .. Q.size :
        LET d == Q.nodes[j].data
            with_labels == compute_priority(decs, d, decs[d].labels, status.labels_a)
        IN decs[d].parent # 0 =>
               /\ KeyGE(Q.nodes[j].key, with_labels)
               /\ KeyGE(with_labels, Q.nodes[j].key)

\* C20: the region of every decorator created during an analysis, with or
\* without tier groups, is contained in the region of its parent and in the
\* original region, and is the region of the parent intersected with the
\* split guards on the path from the root of the tree to the leaf of the
\* decorator (x_i <= k to the left; x_i > k to the right, the lower bound
\* moving to k + EPSILON when it was not above k).
C20_RegionIsMeetOfGuards ==
    [][(pc = "inner" /\ Len(decs') = Len(decs) + 1) =>
           LET h == Len(decs')
               T == F[decs'[h].leaf.t]
               RECURSIVE meet(_)
               meet(n) ==
                   IF binary_tree_node_is_root(T, n) THEN decs[cur].x
                   ELSE LET N == T[n].parent
                            i == T[N].i
                            k == T[N].k
                            y == meet(N)
                        IN IF T[N].left = n
                           THEN [y EXCEPT ![i].u = min(@, k)]
                           ELSE [y EXCEPT ![i].l = IF @ > k THEN @ ELSE k + EPSILON]
           IN /\ SubRegion(decs'[h].x, decs[cur].x)
              /\ SubRegion(decs'[h].x, H)
              /\ decs'[h].x = meet(decs'[h].leaf.n)
      ]_vars

\* C21: for every decorator of an analysis, its depth is the number of its
\* ancestors and the number of trees whose leaf is fixed on the chain to the
\* root decorator: the root has depth 0 and no leaf, and the decorator at
\* depth d >= 1 of the chain holds a leaf of trees[d - 1].
C21_DepthIsTreesFixed ==
    \A h \in 1 .. Len(decs) :
        LET RECURSIVE ancestors(_)
            ancestors(d) ==
                IF decs[d].parent = 0 THEN <<>>
                ELSE Append(ancestors(decs[d].parent), decs[d].parent)
            chain == Append(ancestors(h), h)
        IN /\ decorator_get_depth(decs, h) = Len(chain) - 1
           /\ chain[1] = 1
           /\ decs[1].leaf = NULL
           /\ \A d \in 2 .. Len(chain) :
                  /\ decs[chain[d]].leaf # NULL
                  /\ decs[chain[d]].leaf.t = d - 1
                  /\ d - 1 <= Len(F)
                  /\ binary_tree_node_is_leaf(F[d - 1], decs[chain[d]].leaf.n)
           /\ \A j \in 1 .. Len(decs[h].children) :
                  decs[decs[h].children[j]].parent = h

\* a decorator that fixes a leaf of each of two trees
C21_Witness ==
    \E h \in 1 .. Len(decs) :
        /\ decs[h].parent # 0
        /\ decs[decs[h].parent].parent = 1
        /\ decs[h].leaf.t = 2
        /\ decs[decs[h].parent].leaf.t = 1

\* C22: interval subtraction is sound: for all non-bottom intervals x, y
\* and all a in x, b in y, a - b lies in interval_sub(x, y).
C22_SubIsSound ==
    (pc = "return" /\ call.fn = "interval_sub"
     /\ ~ interval_is_bottom(call.x) /\ ~ interval_is_bottom(call.y)) =>
        \A a \in call.x.l .. call.x.u, b \in call.y.l .. call.y.u :
            call.out.l <= a - b /\ a - b <= call.out.u

\* C23: interval multiplication is sound in all nine sign patterns: for all
\* non-bottom x, y and all a in x, b in y, a * b lies in interval_mul(x, y),
\* whose lower bound is the minimum and whose upper bound is the maximum of
\* the four corner products; if x or y is [0,0] the result is [0,0].
C23_MulIsSound ==
    (pc = "return" /\ call.fn = "interval_mul"
     /\ ~ interval_is_bottom(call.x) /\ ~ interval_is_bottom(call.y)) =>
        LET corners == {call.x.l * call.y.l, call.x.l * call.y.u,
                        call.x.u * call.y.l, call.x.u * call.y.u}
        IN /\ \A a \in call.x.l .. call.x.u, b \in call.y.l .. call.y.u :
                  call.out.l <= a * b /\ a * b <= call.out.u
           /\ call.out.l \in corners /\ \A c \in corners : call.out.l <= c
           /\ call.out.u \in corners /\ \A c \in corners : c <= call.out.u
           /\ (call.x = Interval(0, 0) \/ call.y = Interval(0, 0)) =>
                  call.out = Interval(0, 0)

\* a product of two intervals that both contain negative and positive
\* numbers, with distinct corner products
C23_Witness ==
    /\ pc = "return"
    /\ call.fn = "interval_mul"
    /\ call.x.l < 0 /\ call.x.u > 0
    /\ call.y.l < 0 /\ call.y.u > 0
    /\ call.x.l * call.y.u # call.x.u * call.y.l
    /\ call.out = Interval(min(call.x.l * call.y.u, call.x.u * call.y.l),
                           max(call.x.l * call.y.l, call.x.u * call.y.u))

\* C24: bottom propagates through interval_add, interval_sub, interval_mul,
\* interval_fma and interval_glb: if at least one interval operand is bottom
\* then the result is bottom.
C24_BottomPropagates ==
    (pc = "return" /\ call.fn \in ArithOps
     /\ (interval_is_bottom(call.x) \/ interval_is_bottom(call.y))) =>
        interval_is_bottom(call.out)

\* C25: in every state of an analysis started from a non-bottom region, the
\* contribution under MAX voting of a tree that is still abstract to a label
\* is [0,0], [0,1] or [1,1] and never [1,0], and every score interval
\* computed for a decorator has l <= u.
C25_NoInvertedScore ==
    \A h \in 1 .. Len(decs) :
        /\ decs[h].scores # NULL =>
               \A i \in 1 .. n_labels : decs[h].scores[i].l <= decs[h].scores[i].u
        /\ (decs[h].x # NULL /\ decs[h].parent # 0) =>
               \A t \in decorator_get_depth(decs, h) + 1 .. Len(F) :
                   LET vote == decorator_score_sound_max(
                                   [i \in 1 .. n_labels |-> Interval(0, 0)],
                                   decs[h].x, F[t])
                   IN \A i \in 1 .. n_labels : vote[i].l <= vote[i].u

\* C26: if the region given to reachable_leaves has an empty interval
\* (l > u) in any dimension, whether or not the tree splits on that
\* dimension, no leaf is returned.
C26_BottomReachesNoLeaf ==
    (pc = "return" /\ call.fn = "reachable_leaves"
     /\ hyperrectangle_is_bottom(call.x)) => call.out = <<>>

\* C27: an analysis in which the hyperrectangle of a decorator has become
\* bottom, or the enumeration of the reachable leaves has returned no leaf
\* (some vote is [1,0]), does not end with the verdict STABILITY_TRUE or
\* STABILITY_FALSE.
C27_BottomAborts ==
    [][(pc # "done" /\ pc' = "done"
        /\ \E h \in 1 .. Len(decs) :
               \/ decs[h].x # NULL /\ hyperrectangle_is_bottom(decs[h].x)
               \/ /\ decs[h].x # NULL /\ decs[h].parent # 0
                  /\ \E t \in decorator_get_depth(decs, h) + 1 .. Len(F) :
                         reachable_leaves(F[t], decs[h].x) = <<>>) =>
           status'.result \notin {"STABILITY_TRUE", "STABILITY_FALSE"}
      ]_vars

\* C28: in each of the three outcomes (queue exhausted, counterexample,
\* timeout), when forest_hyperrectangle_is_stable returns every decorator and
\* every hyperrectangle allocated during the analysis has been released
\* exactly once, and so have the buffers and the local label set: nothing is
\* leaked and nothing is released twice.  Until then what was allocated and
\* not released is exactly what the inner queue and the decorators hold.
C28_EverythingReleasedOnce ==
    LET holding == Cardinality({h \in 1 .. Len(decs) : decs[h].x # NULL})
    IN /\ pc \in {"loop", "inner", "break", "enqueue", "exit"} =>
              /\ hist.hyper_new - hist.hyper_del = Qx.size + holding
              /\ hist.dec_new = Len(decs) /\ hist.dec_del = 0
              /\ hist.buf_new = n_buffers /\ hist.buf_del = 0
       /\ pc \in {"done", "dumped"} =>
              /\ hist.hyper_new = hist.hyper_del
              /\ hist.dec_new = hist.dec_del
              /\ hist.buf_new = n_buffers /\ hist.buf_del = n_buffers
              /\ hist.cex \/ hist.timeout \/ hist.exhausted

\* an analysis has returned on a counterexample after refine has released a
\* region that was still waiting in the inner queue
C28_Witness ==
    /\ pc = "done"
    /\ hist.cex
    /\ hist.dec_del >= 2
    /\ hist.hyper_del > hist.dec_del

C30_TreeStableIsSound ==
    pc \in {"done", "dumped"} =>
        /\ status.result \in {"STABILITY_TRUE", "STABILITY_FALSE"}
        /\ (status.result = "STABILITY_TRUE" /\ ~ hyperrectangle_is_bottom(H)) =>
               \A p \in PointsOf(H) :
                   set_is_equal(decision_tree_classify(F[1], p), status.labels_a)

\* the verifier has answered STABILITY_TRUE for a region whose points reach
\* two leaves
C30_Witness ==
    /\ pc = "done"
    /\ status.result = "STABILITY_TRUE"
    /\ \E p, q \in PointsOf(H) : WalkFrom(F[1], 1, p) # WalkFrom(F[1], 1, q)

\* C31: for all sets A and B built with set_add_element,
\* set_is_proper_subset(A, B) returns 1 if and only if every element of A
\* belongs to B and B has an element that does not belong to A.
C31_ProperSubset ==
    (pc = "return" /\ call.fn = "set_is_proper_subset") =>
        (call.out <=> (Elems(call.A) \subseteq Elems(call.B)
                       /\ Elems(call.B) # Elems(call.A)))

\* C32: when a refine step crosses a split (i, k), l <= k < u, the side that
\* covers the larger part of [l, u] as it was before the cut receives the
\* strictly higher traversal priority and is explored first.
C32_LargerSideFirst ==
    [][(/\ pc = "inner" /\ pc' = "inner"
        /\ Qx'.size = Qx.size + 1) =>
           LET x_prime == priority_queue_peek(Qx)
               T == F[decorator_get_depth(decs, cur) + 1]
               N == priority_queue_peek(Qt)
               l == x_prime[T[N].i].l
               u == x_prime[T[N].i].u
               k == T[N].k
               pushes == refine_split(x_prime, T, N, tier)
           IN /\ Len(pushes) = 2
              /\ k - l > u - k =>
                     /\ KeyGT(pushes[1].priority, pushes[2].priority)
                     /\ priority_queue_peek(Qt') = T[N].left
              /\ u - k > k - l =>
                     /\ KeyGT(pushes[2].priority, pushes[1].priority)
                     /\ priority_queue_peek(Qt') = T[N].right
      ]_vars

\* C33: during reachable_leaves on a tree of height h the stack never holds
\* more than h + 1 nodes and the number of leaves written to the output never
\* exceeds the number of leaves of the tree; the leaves written at the end are
\* those the function returns.
C33_StackWithinHeight ==
    call.fn = "reachable_leaves_steps" =>
        LET T == call.T
            h == MaxSeq([n \in 1 .. Len(T) |-> binary_tree_node_get_depth(T, n)])
            leaves == {n \in 1 .. Len(T) : T[n].type = "leaf"}
        IN /\ Len(S) <= h + 1
           /\ Len(call.out) <= Cardinality(leaves)
           /\ \A j \in 1 .. Len(S) : S[j] \in 1 .. Len(T)
           /\ pc = "return" => call.out = reachable_leaves(T, call.x)

\* the stack holds three nodes of a tree of height two
C33_Witness ==
    /\ call.fn = "reachable_leaves_steps"
    /\ pc = "while"
    /\ Len(S) = 3
    /\ \A n \in 1 .. Len(call.T) : binary_tree_node_get_depth(call.T, n) <= 2

\* C34: inside a refine step the queue of hyperrectangles and the queue of tree
\* nodes stay paired: they have the same size, slot by slot the same priority,
\* and the slots of one iteration are those of the iteration before without
\* the popped pair and with the pairs pushed together, equal priorities
\* included.
C34_QueuesStayPaired ==
    [][(pc = "inner" /\ pc' \in {"inner", "break"} /\ <<Qx, Qt>>' # <<Qx, Qt>>) =>
          LET Pairs(X, T) == {<<X.nodes[j].data, T.nodes[j].data, X.nodes[j].key>> :
                                  j \in 1 .. X.size}
              x_prime == priority_queue_peek(Qx)
              N == priority_queue_peek(Qt)
              T == F[decorator_get_depth(decs, cur) + 1]
              top == <<x_prime, N, Qx.nodes[1].key>>
              pushes == IF binary_tree_node_is_leaf(T, N) THEN <<>>
                        ELSE refine_split(x_prime, T, N, tier)
              pushed == {<<pushes[j].x, pushes[j].n, pushes[j].priority>> :
                             j \in 1 .. Len(pushes)}
          IN /\ Qx.size = Qt.size
             /\ Qx'.size = Qt'.size
             /\ \A j \in 1 .. Qx'.size : Qx'.nodes[j].key = Qt'.nodes[j].key
             /\ Cardinality(Pairs(Qx, Qt)) = Qx.size
             /\ Pairs(Qx', Qt') = (Pairs(Qx, Qt) \ {top}) \cup pushed
             /\ Cardinality(Pairs(Qx', Qt')) = Qx'.size ]_vars

\* both sides of a crossed split wait in the two queues with one priority
C34_Witness ==
    /\ pc = "inner"
    /\ Qx.size = 2
    /\ Qt.size = 2
    /\ Qx.nodes[1].key = Qx.nodes[2].key
    /\ Qx.nodes[1].data # Qx.nodes[2].data

\* C35: a counter-example takes precedence over the timeout: the internal
\* status never leaves UNSTABLE and never leaves ABORTED, and once a refine step
\* has set UNSTABLE the verdict is STABILITY_FALSE, also when the time has
\* expired before the goal predicate is evaluated again.
C35_CounterexampleBeatsTimeout ==
    [][/\ internal_status = "UNSTABLE" => internal_status' = "UNSTABLE"
       /\ internal_status = "ABORTED" => internal_status' = "ABORTED"
       /\ (internal_status = "UNSTABLE" /\ pc # "done" /\ pc' = "done") =>
              status'.result = "STABILITY_FALSE" ]_vars

\* the goal predicate stopped the search on a counter-example after the time
\* had expired, and the verdict is unstable
C35_Witness ==
    /\ pc = "done"
    /\ hist.cex
    /\ expired
    /\ ~ hist.exhausted
    /\ internal_status = "UNSTABLE"
    /\ status.result = "STABILITY_FALSE"

\* C36: the analysis terminates whether or not the timeout fires: the verdict
\* is eventually set; on the way every popped split pushes one or two children
\* one level deeper in the tree, and every decorator created is one level
\* deeper than the refined one, with depth at most the number of trees.
C36_Terminates ==
    /\ <>(pc = "done")
    /\ [][(pc = "inner" /\ pc' = "inner" /\ <<Qx, Qt>>' # <<Qx, Qt>>) =>
              LET T == F[decorator_get_depth(decs, cur) + 1]
                  N == priority_queue_peek(Qt)
                  d == binary_tree_node_get_depth(T, N)
              IN IF binary_tree_node_is_leaf(T, N)
                 THEN /\ Qt'.size = Qt.size - 1
                      /\ Len(decs') = Len(decs) + 1
                      /\ decorator_get_depth(decs', Len(decs')) =
                             decorator_get_depth(decs, cur) + 1
                      /\ decorator_get_depth(decs', Len(decs')) <= Len(F)
                 ELSE /\ Qt'.size \in {Qt.size, Qt.size + 1}
                      /\ \A j \in 1 .. Qt'.size :
                             binary_tree_node_get_depth(T, Qt'.nodes[j].data) <= d + 1
                             \/ \E i \in 2 .. Qt.size : Qt.nodes[i] = Qt'.nodes[j] ]_vars

\* the frontier was emptied after several refine steps and the clock never
\* passed the timeout
C36_Witness ==
    /\ pc = "done"
    /\ ~ expired
    /\ hist.exhausted
    /\ hist.refines >= 3

\* C37: every decorator enters the frontier at most once and is refined at most
\* once: the frontier holds distinct decorators that were never refined, the
\* decorators enqueued are those the refine step just created, a region is
\* released only when the refine step of its own decorator ends, and the
\* regions read when a decorator is popped, refined, scored for the frontier or
\* used for the witness are never released ones.
C37_OncePushedOnceRefined ==
    [][LET InQ(P) == {P.nodes[j].data : j \in 1 .. P.size}
           Fresh(D, y) == D[y].x # NULL /\ D[y].children = <<>>
       IN /\ Cardinality(InQ(Q)) = Q.size
          /\ \A y \in InQ(Q) : Fresh(decs, y)
          /\ (pc = "loop" /\ pc' \in {"inner", "enqueue"}) =>
                 /\ Fresh(decs, cur')
                 /\ cur' \notin InQ(Q')
                 /\ refined = <<>>
          /\ (pc = "enqueue" /\ pc' = "loop") =>
                 /\ Cardinality({refined[j] : j \in 1 .. Len(refined)}) = Len(refined)
                 /\ \A j \in 1 .. Len(refined) :
                        /\ Fresh(decs, refined[j])
                        /\ decs[refined[j]].parent = cur
                        /\ refined[j] \notin InQ(Q)
                        /\ refined[j] \in InQ(Q')
                 /\ Q'.size = Q.size + Len(refined)
          /\ \A h \in 1 .. min(Len(decs), Len(decs')) :
                 (decs[h].x # NULL /\ decs'[h].x = NULL) =>
                     /\ h = cur
                     /\ pc \in {"inner", "break"}
                     /\ pc' = "enqueue" ]_vars

\* a refined decorator has released its region while two of its children wait
\* in the frontier
C37_Witness ==
    /\ pc = "loop"
    /\ Q.size >= 2
    /\ decs[1].x = NULL
    /\ \A j \in 1 .. Q.size : decs[Q.nodes[j].data].parent = 1

\* C38: with no tier groups, a refine step that ends without a counter-example
\* partitions the region of its decorator: the regions of the children it
\* created are pairwise disjoint, and every point of the region lies in the
\* region of the child that holds the leaf the point reaches in the tree,
\* except the points with a coordinate strictly between k and k + EPSILON for
\* a split the region crossed on the way to that leaf.
C38_RefinePartitions ==
    [][(/\ pc = "inner" /\ pc' = "enqueue"
        /\ \A i \in Features : tier[i] = 0) =>
           LET T == F[decorator_get_depth(decs, cur) + 1]
               x == decs[cur].x
               RECURSIVE meet(_)
               meet(n) ==
                   IF binary_tree_node_is_root(T, n) THEN x
                   ELSE LET N == T[n].parent
                            y == meet(N)
                        IN IF T[N].left = n
                           THEN [y EXCEPT ![T[N].i].u = min(@, T[N].k)]
                           ELSE [y EXCEPT ![T[N].i].l =
                                              IF @ > T[N].k THEN @ ELSE T[N].k + EPSILON]
               RECURSIVE in_gap(_, _)
               in_gap(n, p) ==
                   IF binary_tree_node_is_root(T, n) THEN FALSE
                   ELSE LET N == T[n].parent
                            i == T[N].i
                            k == T[N].k
                            y == meet(N)
                        IN \/ /\ y[i].l <= k /\ y[i].u > k
                              /\ 2 * k < p[i] /\ p[i] < 2 * (k + EPSILON)
                           \/ in_gap(N, p)
               children == decs[cur].children
           IN /\ \A a, b \in 1 .. Len(children) :
                     a # b => /\ decs[children[a]].leaf # decs[children[b]].leaf
                              /\ PointsOf(decs[children[a]].x)
                                     \cap PointsOf(decs[children[b]].x) = {}
              /\ \A p \in PointsOf(x) :
                     LET leaf == WalkFrom(T, 1, p)
                     IN \/ in_gap(leaf, p)
                        \/ \E a \in 1 .. Len(children) :
                               /\ decs[children[a]].leaf.n = leaf
                               /\ InRegion(p, decs[children[a]].x) ]_vars

\* a refine step without tier groups crossed a split and ended with two
\* children whose regions both hold points
C38_Witness ==
    /\ pc = "enqueue"
    /\ \A i \in Features : tier[i] = 0
    /\ ~ hist.cex
    /\ Len(decs[cur].children) >= 2
    /\ \A j \in 1 .. Len(decs[cur].children) :
           ~ hyperrectangle_is_bottom(decs[decs[cur].children[j]].x)
    /\ \E j \in 1 .. Len(decs[cur].children) :
           decs[decs[cur].children[j]].x[0].l > H[0].l

\* C39: for every sample, magnitude r >= 0 and clip bounds lo <= hi, the
\* hyperrectangle built for an L-infinity or a clipped L-infinity perturbation
\* is non-bottom in every dimension and contains the sample.
C39_RegionHoldsSample ==
    (pc = "return" /\ call.fn \in {"PERTURBATION_L_INF", "PERTURBATION_L_INF_CLIP_ALL"}) =>
        \A i \in Features :
            /\ ~ interval_is_bottom(call.out[i])
            /\ call.out[i].l <= call.sample[i]
            /\ call.sample[i] <= call.out[i].u

\* C40: after any sequence of appends, prepends, shifts and pops on a list the
\* indices satisfy from <= to <= capacity, every element was written inside the
\* allocated array, and the cells from .. to - 1 hold exactly the elements
\* added and not yet removed, in order.
C40_ListWithinArray ==
    call.fn = "list" =>
        LET L == call.L
        IN /\ L.from <= L.to
           /\ L.to <= L.capacity
           /\ Len(L.elements) = L.capacity
           /\ L.to - L.from = Len(call.added)
           /\ \A j \in 1 .. Len(call.added) : L.elements[L.from + j] = call.added[j]

====
